---- MODULE Spec2Model ----
(***************************************************************************)
(* The schema/validation engine of GAS.Core: value rules, schema           *)
(* properties, Schema, SchemaCollection and the Dictionary behind it.      *)
(*                                                                         *)
(* Every rule, property and schema is an instance with an identity; the     *)
(* _failureReason fields of the instances live in the heap variable fr.    *)
(* A validation call is one action: it runs the whole call tree, threading *)
(* the heap through it, and records what the caller observes in `call`.    *)
(***************************************************************************)
EXTENDS Integers, Sequences, FiniteSets, TLC

VARIABLES
    props,      \* property instance id -> its constructed fields
    arrays,     \* array id -> the ISchemaProperty[] it holds (property ids)
    schemas,    \* schema instance id   -> [properties (an array id), complexity]
    fr,         \* instance id -> the instance's _failureReason field ("stack": see SchemaIsValid)
    obj,        \* the value handed to the validation calls (mutated by defaults)
    objPre,     \* obj as it was when the last call started
    call,       \* what the last call did: [op, target, ret, threw]
    dict,       \* SchemaCollection._options._dictionary: [order, val]
    reg,        \* the keys registered in the collection, in registration order
    builder,    \* the fields of the builder under test, and what build() returned
    calls,      \* the builder calls that returned, in the order they were made
    callers     \* caller -> where it stands between validating and reading the reason

vars == <<props, arrays, schemas, fr, obj, objPre, call, dict, reg, builder, calls, callers>>

-----------------------------------------------------------------------------
(* The input value model: the values of the host language.                 *)

Undefined == [t |-> "undefined"]
Null      == [t |-> "null"]
Bool(b)   == [t |-> "boolean", b |-> b]
Num(n)    == [t |-> "number", n |-> n]
Str(s)    == [t |-> "string", s |-> s]
Fn        == [t |-> "function"]
Sym       == [t |-> "symbol"]
BigInt(n) == [t |-> "bigint", n |-> n]
Arr(es)   == [t |-> "array", elems |-> es]
Obj(m)    == [t |-> "map", own |-> m]

EmptyMap == <<>>

\* typeof value, with null given a tag of its own
TypeOfNullAsNull(v) ==
    CASE v.t = "array" -> "object"
      [] v.t = "map"   -> "object"
      [] OTHER         -> v.t

\* typeof value
TypeOf(v) ==
    CASE v.t = "null"  -> "object"
      [] v.t = "array" -> "object"
      [] v.t = "map"   -> "object"
      [] OTHER         -> v.t

\* The data properties every object inherits from Object.prototype (and every
\* boxed primitive, array and function from its own prototype), as far as the
\* names used here go.
ProtoKeys == {"toString"}

IsObject(v) == v.t \in {"map", "array", "function"}

\* The own keys of a value.
OwnKeys(v) ==
    CASE v.t = "map"    -> DOMAIN v.own
      [] v.t = "array"  -> {"length"} \cup {ToString(i - 1) : i \in 1..Len(v.elems)}
      [] v.t = "string" -> {"length"}
      [] OTHER          -> {}

\* `key in value` raises a TypeError unless value is an object.
InThrows(v) == ~IsObject(v)

\* `key in value` for an object: own keys and the prototype chain.
HasProperty(v, k) == k \in OwnKeys(v) \/ k \in ProtoKeys

\* `value[key]` raises a TypeError for null and undefined.
GetThrows(v) == v.t \in {"null", "undefined"}

\* `value[key]`: the own property, else the inherited one, else undefined.
GetProperty(v, k) ==
    IF k \in OwnKeys(v)
    THEN CASE v.t = "map"    -> v.own[k]
           [] v.t = "array"  -> IF k = "length" THEN Num(Len(v.elems))
                                ELSE v.elems[CHOOSE i \in 1..Len(v.elems) : ToString(i - 1) = k]
           [] v.t = "string" -> Num(Len(v.s))
    ELSE IF k \in ProtoKeys THEN Fn
    ELSE Undefined

\* `obj[key] = value` on a map object.
SetProperty(v, k, x) == Obj((k :> x) @@ v.own)

\* `delete obj[key]` on a map object: removes an own key, never an inherited one.
DeleteProperty(v, k) == Obj([j \in (DOMAIN v.own) \ {k} |-> v.own[j]])

-----------------------------------------------------------------------------
(* Small helpers.                                                          *)

RECURSIVE Join(_, _)
\* Array.prototype.join
Join(strs, sep) ==
    IF Len(strs) = 0 THEN ""
    ELSE IF Len(strs) = 1 THEN strs[1]
    ELSE strs[1] \o sep \o Join(Tail(strs), sep)

RECURSIVE SumSeq(_)
SumSeq(ns) == IF Len(ns) = 0 THEN 0 ELSE ns[1] + SumSeq(Tail(ns))

\* What a call hands back: a returned value, or a raised error; h is the heap
\* of _failureReason fields as the call left it.
Ret(r, h) == [threw |-> FALSE, ret |-> r, h |-> h]
Threw(h)  == [threw |-> TRUE, ret |-> "none", h |-> h]

\* The nested Schema.isValid calls the engine's call stack has room for.
MaxStack == 4

\* The call that finds the call stack used up raises a RangeError.
StackExhausted(h) == [threw |-> TRUE, ret |-> "RangeError", h |-> h]

\* The truthiness of a returned value (`if (x)`, `!x`).
Truthy(r) == r = "true"

BoolRet(b) == IF b THEN "true" ELSE "false"

-----------------------------------------------------------------------------
(* The value rules.  A rule instance is named by an id; RuleTable gives the *)
(* fields its constructor stored.                                          *)

\* enum BasicType
BasicTypeUndefined == 0
BasicTypeBoolean   == 1
BasicTypeNumber    == 2
BasicTypeString    == 3
BasicTypeSymbol    == 4
BasicTypeBigInt    == 5
BasicTypeObject    == 6
BasicTypeFunction  == 7

BasicValueValidation(expected) == [kind |-> "Basic", expected |-> expected]
NullValueValidation            == [kind |-> "Null"]
InverseValueValidation(rule)   == [kind |-> "Inverse", rule |-> rule]
SubObjectValueValidation(s)    == [kind |-> "SubObject", schema |-> s]

RuleIds == {"rStr", "rNum", "rCity", "rNull", "rNotNull", "rSub", "rBare", "rArr",
            "rArrNone", "rArrEmpty", "rArrNumNull", "rArrOfArr",
            "rUndef", "rBool", "rSym", "rBig", "rObj", "rFn",
            "rNotNum", "rNotSub", "rNotArr", "rNotNotNull", "rUnknown", "rSelf"}

\* a number handed in as a BasicType that names no member of the enum
UnrecognisedType == BasicTypeFunction + 1

InverseRuleIds == {"rNotNull", "rNotNum", "rNotSub", "rNotArr", "rNotNotNull"}

BasicRuleIds == {"rStr", "rNum", "rCity", "rUndef", "rBool", "rSym", "rBig", "rObj", "rFn"}

ArrayRuleIds == {"rArr", "rArrNone", "rArrEmpty", "rArrNumNull", "rArrOfArr"}

\* What each rule's constructor is handed; for an array rule the child rules
\* as the caller listed them: Null or Arr(<<rule ids>>).
RuleArgs ==
    [r \in RuleIds |->
        CASE r = "rStr"        -> BasicValueValidation(BasicTypeString)
          [] r = "rNum"        -> BasicValueValidation(BasicTypeNumber)
          [] r = "rCity"       -> BasicValueValidation(BasicTypeString)
          [] r = "rNull"       -> NullValueValidation
          [] r = "rNotNull"    -> InverseValueValidation("rNull")
          [] r = "rSub"        -> SubObjectValueValidation("sInner")
          [] r = "rBare"       -> SubObjectValueValidation("sBare")
          [] r = "rArr"        -> [kind |-> "Array", childRules |-> Arr(<<"rSub">>)]
          [] r = "rArrNone"    -> [kind |-> "Array", childRules |-> Null]
          [] r = "rArrEmpty"   -> [kind |-> "Array", childRules |-> Arr(<<>>)]
          [] r = "rArrNumNull" -> [kind |-> "Array", childRules |-> Arr(<<"rNum", "rNull">>)]
          [] r = "rArrOfArr"   -> [kind |-> "Array", childRules |-> Arr(<<"rArrNumNull">>)]
          [] r = "rUndef"      -> BasicValueValidation(BasicTypeUndefined)
          [] r = "rBool"       -> BasicValueValidation(BasicTypeBoolean)
          [] r = "rSym"        -> BasicValueValidation(BasicTypeSymbol)
          [] r = "rBig"        -> BasicValueValidation(BasicTypeBigInt)
          [] r = "rObj"        -> BasicValueValidation(BasicTypeObject)
          [] r = "rFn"         -> BasicValueValidation(BasicTypeFunction)
          [] r = "rNotNum"     -> InverseValueValidation("rNum")
          [] r = "rNotSub"     -> InverseValueValidation("rSub")
          [] r = "rNotArr"     -> InverseValueValidation("rArrNumNull")
          [] r = "rNotNotNull" -> InverseValueValidation("rNotNull")
          [] r = "rUnknown"    -> BasicValueValidation(UnrecognisedType)
          [] r = "rSelf"       -> SubObjectValueValidation("S")]

\* BasicValueValidation.expectedString raises for a tag outside the enum.
ExpectedStringThrows(e) == e \notin 0..7

ExpectedString(e) ==
    CASE e = BasicTypeUndefined -> "undefined"
      [] e = BasicTypeBoolean   -> "boolean"
      [] e = BasicTypeNumber    -> "number"
      [] e = BasicTypeString    -> "string"
      [] e = BasicTypeSymbol    -> "symbol"
      [] e = BasicTypeBigInt    -> "bigint"
      [] e = BasicTypeObject    -> "object"
      [] e = BasicTypeFunction  -> "function"

RECURSIVE RuleComplexity(_, _)
\* get complexity() of the rule built from the arguments d
ComplexityOf(d, sch) ==
    CASE d.kind = "Basic"     -> 2
      [] d.kind = "Null"      -> 1
      [] d.kind = "Inverse"   -> 1 + RuleComplexity(d.rule, sch)
      [] d.kind = "SubObject" -> sch[d.schema].complexity
      [] d.kind = "Array"     ->
            IF d.childRules.t = "null" THEN 2
            ELSE 2 + SumSeq([i \in 1..Len(d.childRules.elems) |->
                                RuleComplexity(d.childRules.elems[i], sch)])

\* get complexity() of a rule; sch is the schema heap it reads
RuleComplexity(r, sch) == ComplexityOf(RuleArgs[r], sch)

RECURSIVE InsertSorted(_, _, _)
\* x goes behind every element whose complexity is not greater than its own
InsertSorted(sorted, x, sch) ==
    IF Len(sorted) = 0 THEN <<x>>
    ELSE IF RuleComplexity(x, sch) < RuleComplexity(sorted[1], sch) THEN <<x>> \o sorted
    ELSE <<sorted[1]>> \o InsertSorted(Tail(sorted), x, sch)

RECURSIVE SortByComplexity(_, _)
\* rules.sort((l, r) => l.complexity - r.complexity): ascending and stable
SortByComplexity(xs, sch) ==
    IF Len(xs) = 0 THEN <<>>
    ELSE InsertSorted(SortByComplexity(SubSeq(xs, 1, Len(xs) - 1), sch), xs[Len(xs)], sch)

-----------------------------------------------------------------------------
(* Constructors of the properties and of Schema.                           *)

PropertyTypeProperty        == 0
PropertyTypeInvalidProperty == 1

\* new SchemaProperty(name, rules, isOptional, defaultValue); rules is Null or
\* Arr(<<rule ids>>), sorted in place by ascending complexity.
SchemaProperty(name, rules, isOptional, defaultValue, sch) ==
    LET sorted == IF rules.t = "null" THEN rules
                  ELSE Arr(SortByComplexity(rules.elems, sch)) IN
    [kind         |-> "Property",
     name         |-> name,
     rules        |-> sorted,
     isOptional   |-> isOptional,
     defaultValue |-> defaultValue,
     complexity   |-> IF sorted.t = "null" THEN 1
                      ELSE 1 + SumSeq([i \in 1..Len(sorted.elems) |->
                                          RuleComplexity(sorted.elems[i], sch)])]

\* new InvalidProperty(name)
InvalidProperty(name) == [kind |-> "InvalidProperty", name |-> name]

\* get complexity() of a property
PropComplexity(pd) == IF pd.kind = "InvalidProperty" THEN 1 ELSE pd.complexity

\* The Schema constructor raising for an absent property list only
SchemaCtorThrowsWhenAbsent(properties) == properties.t = "null"

\* The Schema constructor raises for an absent or empty property list.
SchemaCtorThrows(properties) == properties.t = "null" \/ Len(properties.elems) = 0

\* new Schema(properties): keeps the array it was given (by reference, a) and
\* caches 1 + the sum of the properties' complexities.
Schema(a, arr, pr) ==
    [properties |-> a,
     complexity |-> 1 + SumSeq([i \in 1..Len(arr[a]) |-> PropComplexity(pr[arr[a][i]])])]

\* The schemas the value rules nest: sInner requires "city" as a string,
\* sBare requires "id" to be present.
NestedProps ==
    [p \in {"pCity", "pId"} |->
        IF p = "pCity" THEN SchemaProperty("city", Arr(<<"rCity">>), FALSE, Undefined, EmptyMap)
        ELSE SchemaProperty("id", Null, FALSE, Undefined, EmptyMap)]

NestedArrays == [a \in {"sInner", "sBare"} |-> IF a = "sInner" THEN <<"pCity">> ELSE <<"pId">>]

NestedSchemas == [s \in {"sInner", "sBare"} |-> Schema(s, NestedArrays, NestedProps)]

\* new ArrayValueValidation(childRules): childRules is sorted in place by
\* ascending complexity when it is given.
ArrayValueValidation(childRules) ==
    [kind       |-> "Array",
     childRules |-> IF childRules.t = "null" THEN childRules
                    ELSE Arr(SortByComplexity(childRules.elems, NestedSchemas))]

\* The fields each rule's constructor stored.
RuleTable ==
    [r \in RuleIds |->
        IF r \in ArrayRuleIds THEN ArrayValueValidation(RuleArgs[r].childRules)
        ELSE RuleArgs[r]]

-----------------------------------------------------------------------------
(* displayString and failureReason getters.                                *)

RECURSIVE RuleDisplayString(_)
RECURSIVE PropDisplayString(_)
RECURSIVE SchemaDisplayString(_)

RuleDisplayString(r) ==
    LET d == RuleTable[r] IN
    CASE d.kind = "Basic"     -> "value === '" \o ExpectedString(d.expected) \o "'"
      [] d.kind = "Null"      -> "value === null"
      [] d.kind = "Inverse"   -> "!(" \o RuleDisplayString(d.rule) \o ")"
      [] d.kind = "SubObject" -> SchemaDisplayString(d.schema)
      [] d.kind = "Array"     ->
            IF d.childRules.t # "null" /\ Len(d.childRules.elems) > 0
            THEN "[IsArray | "
                 \o Join([i \in 1..Len(d.childRules.elems) |->
                             RuleDisplayString(d.childRules.elems[i])], " | ")
                 \o "]"
            ELSE "[IsArray]"

PropDisplayString(p) ==
    LET d == props[p] IN
    IF d.kind = "InvalidProperty" THEN "!(" \o d.name \o " in obj)"
    ELSE "'" \o d.name \o "' " \o (IF d.isOptional THEN "Optionally" ELSE "")
         \o " Included"
         \o (IF d.rules.t = "null" \/ Len(d.rules.elems) = 0 THEN ""
             ELSE " with ["
                  \o Join([i \in 1..Len(d.rules.elems) |->
                              RuleDisplayString(d.rules.elems[i])], " | ")
                  \o "]")

SchemaDisplayString(s) ==
    LET ps == arrays[schemas[s].properties] IN
    "{\n\t"
    \o Join([i \in 1..Len(ps) |->
                "\"" \o props[ps[i]].name \o "\": \"" \o PropDisplayString(ps[i]) \o "\""],
            "\n\t")
    \o "\n}"

\* RuleFailureReason with a SubSchemaRule keeping a failureReason of its own
RuleFailureReasonOwn(r, h) ==
    LET d == RuleTable[r] IN
    CASE d.kind = "Basic"     -> h[r]
      [] d.kind = "Array"     -> h[r]
      [] d.kind = "Null"      -> "Value was not null"
      [] d.kind = "Inverse"   -> RuleDisplayString(d.rule) \o " was valid"
      [] d.kind = "SubObject" -> h[r]

\* get failureReason() of a rule, read from heap h
RuleFailureReason(r, h) ==
    LET d == RuleTable[r] IN
    CASE d.kind = "Basic"     -> h[r]
      [] d.kind = "Array"     -> h[r]
      [] d.kind = "Null"      -> "Value was not null"
      [] d.kind = "Inverse"   -> RuleDisplayString(d.rule) \o " was valid"
      [] d.kind = "SubObject" -> h[d.schema]

\* get failureReason() of a schema that reads no field
SchemaFailureReasonBlank(s, h) == ""

\* get failureReason() of a schema, read from heap h
SchemaFailureReason(s, h) == h[s]

\* get failureReason() of a property, read from heap h
PropFailureReason(p, h) ==
    IF props[p].kind = "InvalidProperty"
    THEN "Value had property '" \o props[p].name \o "'"
    ELSE h[p]

-----------------------------------------------------------------------------
(* isValueValid / isValid.  Each takes the heap h of _failureReason fields  *)
(* and returns Ret(result, heap) or Threw(heap).                           *)

RECURSIVE RuleIsValueValid(_, _, _)
RECURSIVE FirstMatch(_, _, _, _)
RECURSIVE ArrayElements(_, _, _, _)
RECURSIVE PropIsValid(_, _, _)
RECURSIVE SchemaProperties(_, _, _, _, _)
RECURSIVE SchemaIsValid(_, _, _)

\* the loop body of FirstMatch, res being what rules[i].isValueValid(value) gave
FirstMatchStep(rules, i, value, res) ==
    IF res.threw THEN res
    ELSE IF Truthy(res.ret) THEN Ret("true", res.h)
    ELSE FirstMatch(rules, i + 1, value, res.h)

\* for (r = i; r < rules.length; ++r) if (rules[r].isValueValid(value)) -> true
\* "true" on the first rule that accepts, "false" when none does.
FirstMatch(rules, i, value, h) ==
    IF i > Len(rules) THEN Ret("false", h)
    ELSE FirstMatchStep(rules, i, value, RuleIsValueValid(rules[i], value, h))

\* ArrayElementsStep with the index reported one-based
ArrayElementsStepOneBased(r, i, value, rules, res) ==
    IF res.threw THEN res
    ELSE IF Truthy(res.ret) THEN ArrayElements(r, i + 1, value, res.h)
    ELSE Ret("false",
             [res.h EXCEPT ![r] =
                 "Array value at index " \o ToString(i) \o " failed conditions ["
                 \o Join([k \in 1..Len(rules) |-> RuleFailureReason(rules[k], res.h)], " | ")
                 \o "]"])

\* the loop body of ArrayElements, res being whether a child rule took value[i]
ArrayElementsStep(r, i, value, rules, res) ==
    IF res.threw THEN res
    ELSE IF Truthy(res.ret) THEN ArrayElements(r, i + 1, value, res.h)
    ELSE Ret("false",
             [res.h EXCEPT ![r] =
                 "Array value at index " \o ToString(i - 1) \o " failed conditions ["
                 \o Join([k \in 1..Len(rules) |-> RuleFailureReason(rules[k], res.h)], " | ")
                 \o "]"])

\* ArrayValueValidation.isValueValid, the loop over value[i] from element i on
ArrayElements(r, i, value, h) ==
    IF i > Len(value.elems) THEN Ret("true", h)
    ELSE ArrayElementsStep(r, i, value, RuleTable[r].childRules.elems,
                           FirstMatch(RuleTable[r].childRules.elems, 1, value.elems[i], h))

BasicIsValueValid(r, value, h) ==
    LET d  == RuleTable[r]
        h1 == [h EXCEPT ![r] = ""]
        valueType == TypeOf(value) IN
    IF ExpectedStringThrows(d.expected) THEN Threw(h1)
    ELSE IF valueType = ExpectedString(d.expected) THEN Ret("true", h1)
    ELSE Ret("false",
             [h1 EXCEPT ![r] = "Value was of type '" \o valueType
                               \o "' when was expecting '" \o ExpectedString(d.expected) \o "'"])

NullIsValueValid(r, value, h) == Ret(BoolRet(value.t = "null"), h)

ArrayIsValueValid(r, value, h) ==
    LET d  == RuleTable[r]
        h1 == [h EXCEPT ![r] = ""] IN
    IF value.t # "array"
    THEN Ret("false", [h1 EXCEPT ![r] = "Supplied value was not an array"])
    ELSE IF d.childRules.t # "null" THEN ArrayElements(r, 1, value, h1)
    ELSE Ret("true", h1)

\* InverseIsValueValid without the negation
InverseIsValueValidAsIs(res) ==
    IF res.threw THEN res ELSE Ret(BoolRet(Truthy(res.ret)), res.h)

\* InverseValueValidation.isValueValid: !rule.isValueValid(value), res being
\* what the wrapped rule gave
InverseIsValueValid(res) ==
    IF res.threw THEN res ELSE Ret(BoolRet(~Truthy(res.ret)), res.h)

RuleIsValueValid(r, value, h) ==
    LET d == RuleTable[r] IN
    CASE d.kind = "Basic"     -> BasicIsValueValid(r, value, h)
      [] d.kind = "Null"      -> NullIsValueValid(r, value, h)
      [] d.kind = "Array"     -> ArrayIsValueValid(r, value, h)
      [] d.kind = "Inverse"   -> InverseIsValueValid(RuleIsValueValid(d.rule, value, h))
      [] d.kind = "SubObject" -> SchemaIsValid(d.schema, value, h)

\* SchemaProperty.isValid past the loop over the rules, res being its outcome
SchemaPropertyRulesDone(p, res) ==
    LET d == props[p] IN
    IF res.threw THEN res
    ELSE IF Truthy(res.ret) THEN res
    ELSE Ret("false",
             [res.h EXCEPT ![p] =
                 "'" \o d.name \o "' failed conditions ["
                 \o Join([k \in 1..Len(d.rules.elems) |->
                             RuleFailureReason(d.rules.elems[k], res.h)], " | ")
                 \o "]"])

\* SchemaProperty.isValid(obj)
SchemaPropertyIsValid(p, o, h) ==
    LET d  == props[p]
        h1 == [h EXCEPT ![p] = ""] IN
    IF InThrows(o) THEN Threw(h1)
    ELSE IF ~HasProperty(o, d.name)
    THEN IF d.isOptional THEN Ret("undefined", h1)
         ELSE Ret("false", [h1 EXCEPT ![p] = "Value is missing property '" \o d.name \o "'"])
    ELSE IF d.rules.t = "null" \/ Len(d.rules.elems) = 0 THEN Ret("true", h1)
    ELSE SchemaPropertyRulesDone(p, FirstMatch(d.rules.elems, 1, GetProperty(o, d.name), h1))

\* InvalidProperty.isValid(obj)
InvalidPropertyIsValid(p, o, h) ==
    IF GetThrows(o) THEN Threw(h)
    ELSE Ret(BoolRet(GetProperty(o, props[p].name).t = "undefined"), h)

PropIsValid(p, o, h) ==
    IF props[p].kind = "InvalidProperty" THEN InvalidPropertyIsValid(p, o, h)
    ELSE SchemaPropertyIsValid(p, o, h)

\* the loop body of Schema.isValid, res being what _properties[i].isValid(obj) gave
SchemaPropertiesStep(s, i, o, success, prop, res) ==
    IF res.threw THEN res
    ELSE IF Truthy(res.ret) THEN SchemaProperties(s, i + 1, o, res.h, success)
    ELSE SchemaProperties(s, i + 1, o,
             [res.h EXCEPT ![s] =
                 IF res.h[s] = "" THEN PropFailureReason(prop, res.h)
                 ELSE res.h[s] \o "\n" \o PropFailureReason(prop, res.h)],
             FALSE)

\* Schema.isValid, the loop over _properties[i] from property i on
SchemaProperties(s, i, o, h, success) ==
    IF i > Len(arrays[schemas[s].properties]) THEN Ret(BoolRet(success), h)
    ELSE SchemaPropertiesStep(s, i, o, success, arrays[schemas[s].properties][i],
                              PropIsValid(arrays[schemas[s].properties][i], o, h))

\* Schema.isValid hands back to its caller: its frame leaves the call stack
SchemaReturns(res) == [res EXCEPT !.h["stack"] = @ - 1]

\* Schema.isValid without the clearing of the previous failure reason
SchemaIsValidKeepReason(s, o, h) ==
    IF h["stack"] >= MaxStack THEN StackExhausted(h)
    ELSE SchemaReturns(SchemaProperties(s, 1, o, [h EXCEPT !["stack"] = @ + 1], TRUE))

\* Schema.isValid(obj); h["stack"] counts the Schema.isValid calls in progress,
\* and the engine raises a RangeError for the call that finds the stack used up.
SchemaIsValid(s, o, h) ==
    IF h["stack"] >= MaxStack THEN StackExhausted(h)
    ELSE SchemaReturns(SchemaProperties(s, 1, o,
                                        [h EXCEPT ![s] = "", !["stack"] = @ + 1], TRUE))

-----------------------------------------------------------------------------
(* testApplyDefault / applyDefaultProperties: return the heap and the       *)
(* object as the call left them.                                           *)

Applied(o, h)      == [threw |-> FALSE, o |-> o, h |-> h]
ApplyThrew(o, h)   == [threw |-> TRUE, o |-> o, h |-> h]

\* if (!this.isValid(obj)) obj[name] = defaultValue, res being what isValid gave
AssignDefaultUnless(p, o, res) ==
    IF res.threw THEN ApplyThrew(o, res.h)
    ELSE IF ~Truthy(res.ret)
    THEN Applied(SetProperty(o, props[p].name, props[p].defaultValue), res.h)
    ELSE Applied(o, res.h)

\* SchemaProperty.testApplyDefault(obj)
SchemaPropertyTestApplyDefault(p, o, h) ==
    AssignDefaultUnless(p, o, SchemaPropertyIsValid(p, o, h))

\* if (!this.isValid(obj)) delete obj[name], res being what isValid gave
DeleteUnless(p, o, res) ==
    IF res.threw THEN ApplyThrew(o, res.h)
    ELSE IF ~Truthy(res.ret) THEN Applied(DeleteProperty(o, props[p].name), res.h)
    ELSE Applied(o, res.h)

\* InvalidProperty.testApplyDefault(obj)
InvalidPropertyTestApplyDefault(p, o, h) ==
    DeleteUnless(p, o, InvalidPropertyIsValid(p, o, h))

PropTestApplyDefault(p, o, h) ==
    IF props[p].kind = "InvalidProperty" THEN InvalidPropertyTestApplyDefault(p, o, h)
    ELSE SchemaPropertyTestApplyDefault(p, o, h)

RECURSIVE ApplyDefaultsFrom(_, _, _, _)

\* the loop body of applyDefaultProperties, res being the property's outcome
ApplyDefaultsStep(s, i, res) ==
    IF res.threw THEN res ELSE ApplyDefaultsFrom(s, i + 1, res.o, res.h)

\* Schema.applyDefaultProperties, the loop from property i on
ApplyDefaultsFrom(s, i, o, h) ==
    IF i > Len(arrays[schemas[s].properties]) THEN Applied(o, h)
    ELSE ApplyDefaultsStep(s, i, PropTestApplyDefault(arrays[schemas[s].properties][i], o, h))

\* Schema.applyDefaultProperties(obj)
ApplyDefaultProperties(s, o, h) == ApplyDefaultsFrom(s, 1, o, h)

-----------------------------------------------------------------------------
(* Dictionary<T>: a wrapper around a plain object used as a map.            *)
(* order is the insertion order of the own keys, val their values.         *)

\* The largest array-index key the model orders numerically.
MaxIndexKey == 12

\* A canonical array index ("0", "7", "10"): such keys enumerate first, ascending.
IsArrayIndex(k) == \E n \in 0..MaxIndexKey : ToString(n) = k

RECURSIVE IndexKeysFrom(_, _)
IndexKeysFrom(n, own) ==
    IF n > MaxIndexKey THEN <<>>
    ELSE (IF ToString(n) \in own THEN <<ToString(n)>> ELSE <<>>) \o IndexKeysFrom(n + 1, own)

IsNotArrayIndex(k) == ~IsArrayIndex(k)

\* Object.keys(object): array-index keys ascending, then the others as inserted
ObjectKeys(d) == IndexKeysFrom(0, DOMAIN d.val) \o SelectSeq(d.order, IsNotArrayIndex)

\* this._dictionary = {}
DictNew == [order |-> <<>>, val |-> EmptyMap]

\* Dictionary.getKeys
DictGetKeys(d) == ObjectKeys(d)

\* Dictionary.hasKey: `key in this._dictionary`
DictHasKey(d, key) == key \in DOMAIN d.val \/ key \in ProtoKeys

\* this._dictionary[key] = value
DictAssign(d, key, value) ==
    [order |-> IF key \in DOMAIN d.val THEN d.order ELSE Append(d.order, key),
     val   |-> (key :> value) @@ d.val]

\* delete this._dictionary[key]
DictDelete(d, key) ==
    [order |-> SelectSeq(d.order, LAMBDA k : k # key),
     val   |-> [k \in (DOMAIN d.val) \ {key} |-> d.val[k]]]

\* this._dictionary[key]
DictRead(d, key) ==
    IF key \in DOMAIN d.val THEN d.val[key]
    ELSE IF key \in ProtoKeys THEN "function"
    ELSE "undefined"

\* Dictionary.add: [threw, d]
DictAdd(d, key, value) ==
    IF DictHasKey(d, key) THEN [threw |-> TRUE, d |-> d]
    ELSE [threw |-> FALSE, d |-> DictAssign(d, key, value)]

\* Dictionary.replace
DictReplace(d, key, value) == DictAssign(d, key, value)

\* Dictionary.remove: [ret, d]
DictRemove(d, key) ==
    IF ~DictHasKey(d, key) THEN [ret |-> FALSE, d |-> d]
    ELSE [ret |-> TRUE, d |-> DictDelete(d, key)]

\* Dictionary.get: [threw, value]
DictGet(d, key) ==
    IF ~DictHasKey(d, key) THEN [threw |-> TRUE, value |-> "undefined"]
    ELSE [threw |-> FALSE, value |-> DictRead(d, key)]

-----------------------------------------------------------------------------
(* SchemaCollection over its Dictionary<Schema> _options.                   *)

\* SchemaCollection.hasSchema
HasSchema(d, key) == DictHasKey(d, key)

\* SchemaCollection.getSchema: the stored value, or "null"
GetSchema(d, key) == IF DictHasKey(d, key) THEN DictGet(d, key).value ELSE "null"

\* SchemaCollection.addSchema
AddSchema(d, key, schema) == DictAdd(d, key, schema)

\* SchemaCollection.replaceSchema
ReplaceSchema(d, key, schema) == DictReplace(d, key, schema)

\* SchemaCollection.remove
RemoveSchema(d, key) == DictRemove(d, key)

\* SchemaCollection.getSchemaKeys
GetSchemaKeys(d) == DictGetKeys(d)

RECURSIVE ValidateFrom(_, _, _, _, _)

\* the loop body of validateObjectSchema, res being what get(key).isValid(obj) gave
ValidateStep(d, keys, i, o, res) ==
    IF res.threw THEN [threw |-> TRUE, ret |-> "none", key |-> "undefined", h |-> res.h]
    ELSE IF Truthy(res.ret)
    THEN [threw |-> FALSE, ret |-> "true", key |-> keys[i], h |-> res.h]
    ELSE ValidateFrom(d, keys, i + 1, o, res.h)

\* SchemaCollection.validateObjectSchema, the loop from the i-th key on:
\* [threw, ret, key, h]
ValidateFrom(d, keys, i, o, h) ==
    IF i > Len(keys) THEN [threw |-> FALSE, ret |-> "false", key |-> "undefined", h |-> h]
    ELSE ValidateStep(d, keys, i, o, SchemaIsValid(DictGet(d, keys[i]).value, o, h))

\* SchemaCollection.validateObjectSchema(obj)
ValidateObjectSchema(d, o, h) == ValidateFrom(d, DictGetKeys(d), 1, o, h)

-----------------------------------------------------------------------------
(* The instances the model constructs.                                     *)

PropIds   == {"P", "pName", "pAge", "pLegacy", "pAddr", "pCity", "pId", "pLater"}
SchemaIds == {"S", "sInner", "sBare", "sPerson", "sLegacy"}
HeapIds   == PropIds \cup SchemaIds \cup RuleIds

\* The longest property list of the schema under test.
MaxProps == 2

\* The properties of the scenarios: "name" a required string, "age" an optional
\* number, "legacyFlag" excluded, "address" checked by the nested schema.
ScenarioProps ==
    [p \in {"pName", "pAge", "pLegacy", "pAddr"} |->
        CASE p = "pName"   -> SchemaProperty("name", Arr(<<"rStr">>), FALSE, Undefined, NestedSchemas)
          [] p = "pAge"    -> SchemaProperty("age", Arr(<<"rNum">>), TRUE, Undefined, NestedSchemas)
          [] p = "pLegacy" -> InvalidProperty("legacyFlag")
          [] p = "pAddr"   -> SchemaProperty("address", Arr(<<"rSub">>), FALSE, Undefined, NestedSchemas)]

\* Property("count", [TypeRule(number)], default 0)
CountProp == SchemaProperty("count", Arr(<<"rNum">>), FALSE, Num(0), NestedSchemas)

\* The property under test, over every combination of its constructor's arguments.
FreeNames    == {"count", "toString"}
FreeRules    == {Null, Arr(<<>>), Arr(<<"rNum">>), Arr(<<"rNum", "rNull">>),
                 Arr(<<"rStr", "rNotNull">>), Arr(<<"rSub">>), Arr(<<"rBare", "rNum">>),
                 Arr(<<"rArr">>), Arr(<<"rNum", "rBare">>), Arr(<<"rSub", "rArr">>)}
FreeDefaults == {Undefined, Num(0)}

FreeProps ==
    {InvalidProperty(n) : n \in FreeNames}
    \cup {SchemaProperty("count", rs, o, dv, NestedSchemas) :
            rs \in FreeRules, o \in BOOLEAN, dv \in FreeDefaults}

\* The objects (and other values) callers hand to validation.
City(v) == Obj("city" :> v)

Objects ==
    {Obj(EmptyMap),
     Obj("name" :> Str("Ann")),
     Obj(("name" :> Str("Ann")) @@ ("age" :> Num(30))),
     Obj("age" :> Num(30)),
     Obj("name" :> Num(5)),
     Obj(("name" :> Str("Ann")) @@ ("legacyFlag" :> Bool(TRUE))),
     Obj("legacyFlag" :> Undefined),
     Obj("address" :> City(Str("X"))),
     Obj("address" :> Obj(EmptyMap)),
     Obj("address" :> Num(5)),
     Obj("count" :> Num(7)),
     Obj("count" :> Str("x")),
     Obj("count" :> Undefined),
     Obj("count" :> Null),
     Obj("count" :> City(Str("X"))),
     Obj("count" :> Arr(<<City(Str("X")), City(Num(1))>>)),
     Obj("count" :> Arr(<<Num(1)>>)),
     Obj("toString" :> Num(7))}

NonObjects == {Undefined, Null, Num(5), Str("s"), Arr(<<>>)}

\* The last call made: the operation, the instance or key it was made on, its
\* schema argument, what it returned and whether it threw
NoCall == [op |-> "none", target |-> "", arg |-> "", ret |-> "none", threw |-> FALSE,
           key |-> "", keys |-> <<>>]

Called(op, target, res) ==
    [op |-> op, target |-> target, arg |-> "", ret |-> res.ret, threw |-> res.threw,
     key |-> "", keys |-> <<>>]

\* The sequences over S of length 1..n
SeqsUpTo(S, n) == UNION {[1..k -> S] : k \in 1..n}

\* The callers that share the schema under test; none has called yet.
Callers == {"A", "B"}

NotCalled == [pc |-> "idle", obj |-> Undefined, own |-> "", read |-> "", alone |-> TRUE]

InitHeap(freeProp, properties, o) ==
    /\ props   = ("P" :> freeProp) @@ ScenarioProps @@ NestedProps
    /\ arrays  = ("S" :> properties) @@ ("sPerson" :> <<"pName", "pAge">>)
                 @@ ("sLegacy" :> <<"pLegacy">>) @@ NestedArrays
    /\ schemas = [s \in SchemaIds |->
                    IF s \in DOMAIN NestedSchemas THEN NestedSchemas[s]
                    ELSE Schema(s, arrays, props)]
    /\ fr      = ("stack" :> 0) @@ [i \in HeapIds |-> ""]
    /\ obj     = o
    /\ objPre  = o
    /\ call    = NoCall
    /\ dict    = DictNew
    /\ reg     = DictNew
    /\ callers = [c \in Callers |-> NotCalled]

\* No builder is in use while the validation calls are under test.
InitWith(freeProp, properties, o) ==
    /\ InitHeap(freeProp, properties, o)
    /\ builder = [kind |-> "none"]
    /\ calls   = <<>>

\* One property under test, over every construction; the schema holds it alone.
InitProperty ==
    \E fp \in FreeProps, o \in Objects \cup NonObjects : InitWith(fp, <<"P">>, o)

\* A schema under test over the scenario properties, in every order.
InitSchema ==
    \E ps \in SeqsUpTo({"P", "pName", "pAge", "pLegacy", "pAddr"}, MaxProps),
       o \in Objects \cup NonObjects :
        InitWith(CountProp, ps, o)

-----------------------------------------------------------------------------
(* The calls.                                                              *)

PropsOfS == {arrays["S"][i] : i \in 1..Len(arrays["S"])}

\* The rules handed to the constructors of the properties of S
RulesOfS ==
    UNION {IF props[p].kind = "InvalidProperty" \/ props[p].rules.t = "null" THEN {}
           ELSE {props[p].rules.elems[i] : i \in 1..Len(props[p].rules.elems)} :
           p \in PropsOfS}

\* property.isValid(obj)
CallPropIsValid ==
    \E p \in PropsOfS :
        \E res \in {PropIsValid(p, obj, fr)} :
        /\ fr' = res.h
        /\ call' = Called("prop.isValid", p, res)
        /\ objPre' = obj
        /\ UNCHANGED <<callers, builder, calls, props, arrays, schemas, obj, dict, reg>>

\* property.testApplyDefault(obj)
CallPropTestApplyDefault ==
    /\ obj.t = "map"
    /\ \E p \in PropsOfS :
        \E res \in {PropTestApplyDefault(p, obj, fr)} :
        /\ fr' = res.h
        /\ obj' = res.o
        /\ objPre' = obj
        /\ call' = [NoCall EXCEPT !.op = "prop.testApplyDefault", !.target = p,
                                  !.threw = res.threw]
        /\ UNCHANGED <<callers, builder, calls, props, arrays, schemas, dict, reg>>

\* S.isValid(obj)
CallSchemaIsValid ==
    \E res \in {SchemaIsValid("S", obj, fr)} :
    /\ fr' = res.h
    /\ call' = Called("schema.isValid", "S", res)
    /\ objPre' = obj
    /\ UNCHANGED <<callers, builder, calls, props, arrays, schemas, obj, dict, reg>>

\* S.applyDefaultProperties(obj)
CallApplyDefaultProperties ==
    /\ obj.t = "map"
    /\ \E res \in {ApplyDefaultProperties("S", obj, fr)} :
        /\ fr' = res.h
        /\ obj' = res.o
        /\ objPre' = obj
        /\ call' = [NoCall EXCEPT !.op = "schema.applyDefaultProperties", !.target = "S",
                                  !.threw = res.threw]
    /\ UNCHANGED <<callers, builder, calls, props, arrays, schemas, dict, reg>>

\* rule.isValueValid(obj)
CallIsValueValid ==
    \E r \in RulesOfS :
        \E res \in {RuleIsValueValid(r, obj, fr)} :
        /\ fr' = res.h
        /\ call' = Called("rule.isValueValid", r, res)
        /\ objPre' = obj
        /\ UNCHANGED <<callers, builder, calls, props, arrays, schemas, obj, dict, reg>>

NextValidation ==
    \/ CallPropIsValid
    \/ CallPropTestApplyDefault
    \/ CallSchemaIsValid
    \/ CallApplyDefaultProperties
    \/ CallIsValueValid

SpecProperty == InitProperty /\ [][NextValidation]_vars

SpecSchema == InitSchema /\ [][NextValidation]_vars

\* One rule under test, held by a required property "count" with no default.
\* The arrays handed to the rules
ArrayValues ==
    { Arr(<<Num(1)>>), Arr(<<Num(1), Null>>), Arr(<<Num(1), Str("a")>>),
      Arr(<<Str("a"), Num(1), Str("b")>>), Arr(<<Undefined>>),
      Arr(<<City(Str("X"))>>), Arr(<<City(Str("X")), City(Num(1))>>),
      Arr(<<Arr(<<Num(1)>>)>>), Arr(<<Arr(<<Num(1)>>), Arr(<<Str("a")>>)>>) }

\* The scalars typeof tells apart, besides those of NonObjects
ScalarValues == {Bool(TRUE), Num(0), Str(""), Sym, BigInt(1), Fn}

\* The objects handed to the rules over the nested schemas
NestedValues == {City(Str("X")), City(Num(1)), Obj("id" :> Null)}

InitRule ==
    \E r \in RuleIds \ {"rSelf"},
       o \in Objects \cup NonObjects \cup ArrayValues \cup ScalarValues \cup NestedValues :
        InitWith(SchemaProperty("count", Arr(<<r>>), FALSE, Undefined, NestedSchemas), <<"P">>, o)

SpecRule == InitRule /\ [][CallIsValueValid]_vars

-----------------------------------------------------------------------------
(* A SchemaCollection under a sequence of calls.  reg records the           *)
(* registrations that succeeded, in the order they were made.              *)

Keys == {"b", "10", "2", "toString"}

StoredSchemas == {"sPerson", "sLegacy"}

CollectionObjects ==
    { Obj(("name" :> Str("Ann")) @@ ("age" :> Num(30))),
      Obj(EmptyMap) }

InitCollection == \E o \in CollectionObjects : InitWith(CountProp, <<"P">>, o)

CollectionCall(op, key, schema, ret, threw) ==
    [op |-> op, target |-> key, arg |-> schema, ret |-> ret, threw |-> threw,
     key |-> "", keys |-> <<>>]

\* options.addSchema(key, schema)
CallAddSchema ==
    \E key \in Keys, schema \in StoredSchemas :
        \E res \in {AddSchema(dict, key, schema)} :
        /\ dict' = res.d
        /\ reg' = IF res.threw THEN reg ELSE DictAssign(reg, key, schema)
        /\ call' = CollectionCall("addSchema", key, schema,
                                  IF res.threw THEN "none" ELSE "undefined", res.threw)
        /\ UNCHANGED <<callers, builder, calls, props, arrays, schemas, fr, obj, objPre>>

\* options.replaceSchema(key, schema)
CallReplaceSchema ==
    \E key \in Keys, schema \in StoredSchemas :
        /\ dict' = ReplaceSchema(dict, key, schema)
        /\ reg' = DictAssign(reg, key, schema)
        /\ call' = CollectionCall("replaceSchema", key, schema, "undefined", FALSE)
        /\ UNCHANGED <<callers, builder, calls, props, arrays, schemas, fr, obj, objPre>>

\* options.remove(key)
CallRemove ==
    \E key \in Keys :
        \E res \in {RemoveSchema(dict, key)} :
        /\ dict' = res.d
        /\ reg' = DictDelete(reg, key)
        /\ call' = CollectionCall("remove", key, "", BoolRet(res.ret), FALSE)
        /\ UNCHANGED <<callers, builder, calls, props, arrays, schemas, fr, obj, objPre>>

\* options.hasSchema(key)
CallHasSchema ==
    \E key \in Keys :
        /\ call' = CollectionCall("hasSchema", key, "", BoolRet(HasSchema(dict, key)), FALSE)
        /\ UNCHANGED <<callers, builder, calls, props, arrays, schemas, fr, obj, objPre, dict, reg>>

\* options.getSchema(key)
CallGetSchema ==
    \E key \in Keys :
        /\ call' = CollectionCall("getSchema", key, "", GetSchema(dict, key), FALSE)
        /\ UNCHANGED <<callers, builder, calls, props, arrays, schemas, fr, obj, objPre, dict, reg>>

\* options.getSchemaKeys()
CallGetSchemaKeys ==
    /\ call' = [CollectionCall("getSchemaKeys", "", "", "array", FALSE)
                    EXCEPT !.keys = GetSchemaKeys(dict)]
    /\ UNCHANGED <<callers, builder, calls, props, arrays, schemas, fr, obj, objPre, dict, reg>>

\* options.validateObjectSchema(obj)
CallValidateObjectSchema ==
    \E res \in {ValidateObjectSchema(dict, obj, fr)} :
    /\ fr' = res.h
    /\ call' = [CollectionCall("validateObjectSchema", "", "", res.ret, res.threw)
                    EXCEPT !.key = res.key]
    /\ UNCHANGED <<callers, builder, calls, props, arrays, schemas, obj, objPre, dict, reg>>

NextCollection ==
    \/ CallAddSchema
    \/ CallReplaceSchema
    \/ CallRemove
    \/ CallHasSchema
    \/ CallGetSchema
    \/ CallGetSchemaKeys
    \/ CallValidateObjectSchema

SpecCollection == InitCollection /\ [][NextCollection]_vars

-----------------------------------------------------------------------------
(* SchemaBuilder and SchemaCollectionBuilder.  builder holds the fields of *)
(* the one under test; the arrays of properties are held by value, and the *)
(* Schema that SchemaBuilder.build returns keeps the builder's own         *)
(* _schemaProperties array, which built.properties names.                  *)

\* String.prototype.trim, over the names handed to the builders
Trim(s) == IF s = " " THEN "" ELSE s

\* StringExtensions.isNullOrEmpty: `!str || str.trim().length === 0`
IsNullOrEmpty(str) == str.t # "string" \/ str.s = "" \/ Trim(str.s) = ""

\* the constructors of the two builders
NewBuilder(kind) ==
    [kind                      |-> kind,
     schemaProperties          |-> <<>>,
     schema                    |-> DictNew,
     currentSchemaName         |-> Null,
     currentSchemaProperties   |-> <<>>,
     currentPropertyName       |-> Null,
     currentPropertyType       |-> PropertyTypeProperty,
     currentPropertyOptional   |-> FALSE,
     currentPropertyDefault    |-> Undefined,
     currentPropertyValidation |-> <<>>,
     built                     |-> Null]

BuilderOk(b)    == [threw |-> FALSE, b |-> b]
BuilderThrew(b) == [threw |-> TRUE, b |-> b]

\* PushProperty leaving the staged optional flag as it was
PushPropertyKeepOptional(b, property) ==
    [b EXCEPT !.schemaProperties =
                  IF b.kind = "SchemaBuilder" THEN Append(@, property) ELSE @,
              !.currentSchemaProperties =
                  IF b.kind = "SchemaBuilder" THEN @ ELSE Append(@, property),
              !.currentPropertyName       = Null,
              !.currentPropertyType       = PropertyTypeProperty,
              !.currentPropertyDefault    = Undefined,
              !.currentPropertyValidation = <<>>]

\* completeProperty, past its switch: push the property and reset the staged values
PushProperty(b, property) ==
    [b EXCEPT !.schemaProperties =
                  IF b.kind = "SchemaBuilder" THEN Append(@, property) ELSE @,
              !.currentSchemaProperties =
                  IF b.kind = "SchemaBuilder" THEN @ ELSE Append(@, property),
              !.currentPropertyName       = Null,
              !.currentPropertyType       = PropertyTypeProperty,
              !.currentPropertyOptional   = FALSE,
              !.currentPropertyDefault    = Undefined,
              !.currentPropertyValidation = <<>>]

\* completeProperty
CompleteProperty(b) ==
    IF IsNullOrEmpty(b.currentPropertyName) THEN BuilderOk(b)
    ELSE IF b.currentPropertyType = PropertyTypeProperty
         THEN BuilderOk(PushProperty(b, SchemaProperty(b.currentPropertyName.s,
                                                        Arr(b.currentPropertyValidation),
                                                        b.currentPropertyOptional,
                                                        b.currentPropertyDefault,
                                                        NestedSchemas)))
    ELSE IF b.currentPropertyType = PropertyTypeInvalidProperty
         THEN BuilderOk(PushProperty(b, InvalidProperty(b.currentPropertyName.s)))
    ELSE BuilderThrew(b)

\* new Schema(properties) over an array of properties held by value
SchemaOf(properties) ==
    [properties |-> properties,
     complexity |-> Schema("a", "a" :> [i \in 1..Len(properties) |-> i], properties).complexity]

\* completeSchema, once completeProperty has returned b
CompleteSchemaAdd(b, added) ==
    IF added.threw THEN BuilderThrew(b)
    ELSE BuilderOk([b EXCEPT !.schema                  = added.d,
                             !.currentSchemaName       = Null,
                             !.currentSchemaProperties = <<>>])

CompleteSchemaStep(flushed) ==
    IF flushed.threw \/ SchemaCtorThrows(Arr(flushed.b.currentSchemaProperties)) THEN
        BuilderThrew(flushed.b)
    ELSE CompleteSchemaAdd(flushed.b,
                           DictAdd(flushed.b.schema, flushed.b.currentSchemaName.s,
                                   SchemaOf(flushed.b.currentSchemaProperties)))

\* SchemaCollectionBuilder.completeSchema
CompleteSchema(b) ==
    IF IsNullOrEmpty(b.currentSchemaName) THEN BuilderOk(b)
    ELSE CompleteSchemaStep(CompleteProperty(b))

\* SchemaCollectionBuilder.addSchema, once completeSchema has returned
AddSchemaStep(flushed, name) ==
    IF flushed.threw \/ IsNullOrEmpty(name) THEN BuilderThrew(flushed.b)
    ELSE BuilderOk([flushed.b EXCEPT !.currentSchemaName = name])

\* SchemaCollectionBuilder.addSchema(name)
BuilderAddSchema(b, name) == AddSchemaStep(CompleteSchema(b), name)

\* addProperty, once completeProperty has returned
AddPropertyStep(flushed, name, type) ==
    IF flushed.threw \/ IsNullOrEmpty(name) THEN BuilderThrew(flushed.b)
    ELSE BuilderOk([flushed.b EXCEPT !.currentPropertyName = name,
                                     !.currentPropertyType = type])

\* addProperty checking the name before it completes the pending property
BuilderAddPropertyNameFirst(b, name, type) ==
    IF b.kind = "SchemaCollectionBuilder" /\ IsNullOrEmpty(b.currentSchemaName) THEN
        BuilderThrew(b)
    ELSE IF IsNullOrEmpty(name) THEN BuilderThrew(b)
    ELSE AddPropertyStep(CompleteProperty(b), name, type)

\* addProperty(name, type) of either builder
BuilderAddProperty(b, name, type) ==
    IF b.kind = "SchemaCollectionBuilder" /\ IsNullOrEmpty(b.currentSchemaName) THEN
        BuilderThrew(b)
    ELSE AddPropertyStep(CompleteProperty(b), name, type)

\* NoActiveProperty without the check of the property type
NoActivePropertyOfAnyType(b) ==
    \/ b.kind = "SchemaCollectionBuilder" /\ IsNullOrEmpty(b.currentSchemaName)
    \/ IsNullOrEmpty(b.currentPropertyName)

\* The checks that open isOptional, withDefault and addValueValidation: one of
\* them raises.
NoActiveProperty(b) ==
    \/ b.kind = "SchemaCollectionBuilder" /\ IsNullOrEmpty(b.currentSchemaName)
    \/ IsNullOrEmpty(b.currentPropertyName)
    \/ b.currentPropertyType # PropertyTypeProperty

\* isOptional(isOptional)
BuilderIsOptional(b, isOptional) ==
    IF NoActiveProperty(b) THEN BuilderThrew(b)
    ELSE BuilderOk([b EXCEPT !.currentPropertyOptional = isOptional])

\* withDefault(defaultValue)
BuilderWithDefault(b, defaultValue) ==
    IF NoActiveProperty(b) THEN BuilderThrew(b)
    ELSE BuilderOk([b EXCEPT !.currentPropertyDefault = defaultValue])

\* a null handed in as the rule
NoRule == "null"

\* addValueValidation(rule)
BuilderAddValueValidation(b, rule) ==
    IF rule = NoRule \/ NoActiveProperty(b) THEN BuilderThrew(b)
    ELSE BuilderOk([b EXCEPT !.currentPropertyValidation = Append(@, rule)])

\* SchemaBuilder.build, once completeProperty has returned: the Schema keeps
\* the array _schemaProperties itself
SchemaBuildStep(flushed) ==
    IF flushed.threw \/ SchemaCtorThrows(Arr(flushed.b.schemaProperties)) THEN
        BuilderThrew(flushed.b)
    ELSE BuilderOk([flushed.b EXCEPT !.built =
                       [properties |-> "_schemaProperties",
                        complexity |-> SchemaOf(flushed.b.schemaProperties).complexity]])

\* collection.addSchema(name, schema) for every entry enumerateEntries hands over
RECURSIVE AddEntries(_, _, _)
AddEntries(keys, from, collection) ==
    IF keys = <<>> \/ collection.threw THEN collection
    ELSE AddEntries(Tail(keys), from, AddSchema(collection.d, Head(keys), from.val[Head(keys)]))

\* SchemaCollectionBuilder.build, once completeSchema has returned
CollectionBuildAdd(b, collection) ==
    IF collection.threw THEN BuilderThrew(b)
    ELSE BuilderOk([b EXCEPT !.built = collection.d])

CollectionBuildStep(flushed) ==
    IF flushed.threw THEN BuilderThrew(flushed.b)
    ELSE CollectionBuildAdd(flushed.b,
                            AddEntries(ObjectKeys(flushed.b.schema), flushed.b.schema,
                                       [threw |-> FALSE, d |-> DictNew]))

\* build() of either builder
BuilderBuild(b) ==
    IF b.kind = "SchemaBuilder" THEN SchemaBuildStep(CompleteProperty(b))
    ELSE CollectionBuildStep(CompleteSchema(b))

-----------------------------------------------------------------------------
(* A builder under a sequence of calls.                                     *)

\* the number of calls that return, the calls of build aside
MaxCalls == 4

\* the names handed to addProperty; a name the builder refuses comes with the
\* type left to its default
PropertyNames == {Str("a"), Str(""), Str(" "), Null}

PropertyTypes(name) ==
    IF IsNullOrEmpty(name) THEN {PropertyTypeProperty}
    ELSE {PropertyTypeProperty, PropertyTypeInvalidProperty}

SchemaNames == {Str("s"), Str("t"), Str("2"), Str("toString"), Str("")}

StagedRules == {"rNum", "rNull", NoRule}

InitBuilder ==
    \E kind \in {"SchemaBuilder", "SchemaCollectionBuilder"} :
        /\ InitHeap(CountProp, <<"P">>, Undefined)
        /\ builder = NewBuilder(kind)
        /\ calls   = <<>>

\* What a builder call leaves behind: the fields, the call, and the record of
\* the call when it returned.  MaxCalls calls return before the last build.
BuilderCalled(op, arg, res) ==
    /\ res.threw \/ op = "build" \/ Len(calls) < MaxCalls
    /\ builder' = res.b
    /\ call' = [op |-> op, target |-> builder.kind, arg |-> arg,
                ret |-> IF res.threw THEN "none" ELSE "this", threw |-> res.threw,
                key |-> "", keys |-> <<>>]
    /\ calls' = IF res.threw \/ op = "build" THEN calls
                ELSE Append(calls, [op |-> op, arg |-> arg])
    /\ UNCHANGED <<callers, props, arrays, schemas, fr, obj, objPre, dict, reg>>

CallBuilderAddSchema ==
    \E name \in SchemaNames :
        /\ builder.kind = "SchemaCollectionBuilder"
        /\ BuilderCalled("addSchema", name, BuilderAddSchema(builder, name))

CallBuilderAddProperty ==
    \E name \in PropertyNames :
        \E type \in PropertyTypes(name) :
        /\ builder.kind # "none"
        /\ BuilderCalled("addProperty", [name |-> name, type |-> type],
                         BuilderAddProperty(builder, name, type))

CallBuilderIsOptional ==
    \E isOptional \in BOOLEAN :
        /\ builder.kind # "none"
        /\ BuilderCalled("isOptional", isOptional, BuilderIsOptional(builder, isOptional))

CallBuilderWithDefault ==
    \E defaultValue \in {Num(1)} :
        /\ builder.kind # "none"
        /\ BuilderCalled("withDefault", defaultValue, BuilderWithDefault(builder, defaultValue))

CallBuilderAddValueValidation ==
    \E rule \in StagedRules :
        /\ builder.kind # "none"
        /\ BuilderCalled("addValueValidation", rule, BuilderAddValueValidation(builder, rule))

CallBuilderBuild ==
    /\ builder.kind # "none"
    /\ BuilderCalled("build", "", BuilderBuild(builder))

NextBuilder ==
    \/ CallBuilderAddSchema
    \/ CallBuilderAddProperty
    \/ CallBuilderIsOptional
    \/ CallBuilderWithDefault
    \/ CallBuilderAddValueValidation
    \/ CallBuilderBuild

SpecBuilder == InitBuilder /\ [][NextBuilder]_vars

-----------------------------------------------------------------------------
(* Two callers of one Schema instance.  Each validates an object of its own *)
(* and then reads failureReason; own records the reason its validation      *)
(* left, alone whether no other validation began before it read.            *)

CallerSchemas == {<<"pName", "pAge">>, <<"pName", "pLegacy">>, <<"pAddr">>}

CallerObjects ==
    {Obj(EmptyMap),
     Obj("name" :> Num(5)),
     Obj(("name" :> Str("Ann")) @@ ("legacyFlag" :> Bool(TRUE))),
     Obj("address" :> Obj(EmptyMap))}

InitCallers == \E ps \in CallerSchemas : InitWith(CountProp, ps, Undefined)

\* what S.isValid(o) by caller c leaves in callers, res being its outcome
Validated(c, o, res) ==
    [d \in Callers |->
        IF d = c
        THEN [pc |-> "validated", obj |-> o, own |-> res.h["S"], read |-> "", alone |-> TRUE]
        ELSE IF callers[d].pc = "validated" THEN [callers[d] EXCEPT !.alone = FALSE]
        ELSE callers[d]]

\* caller c: S.isValid(o)
CallerValidate(c) ==
    /\ callers[c].pc # "validated"
    /\ \E o \in CallerObjects :
        \E res \in {SchemaIsValid("S", o, fr)} :
        /\ fr' = res.h
        /\ callers' = Validated(c, o, res)
        /\ call' = Called("schema.isValid", "S", res)
    /\ UNCHANGED <<builder, calls, props, arrays, schemas, obj, objPre, dict, reg>>

\* caller c: S.failureReason
CallerRead(c) ==
    /\ callers[c].pc = "validated"
    /\ callers' = [callers EXCEPT ![c].pc = "read",
                                  ![c].read = SchemaFailureReason("S", fr)]
    /\ call' = [NoCall EXCEPT !.op = "schema.failureReason", !.target = "S"]
    /\ UNCHANGED <<builder, calls, props, arrays, schemas, fr, obj, objPre, dict, reg>>

NextCallers == \E c \in Callers : CallerValidate(c) \/ CallerRead(c)

SpecCallers == InitCallers /\ [][NextCallers]_vars

-----------------------------------------------------------------------------
(* A SchemaBuilder used again after build() has returned the schema S: S    *)
(* holds the builder's own _schemaProperties array, so the property the     *)
(* builder completes next is pushed onto the array S evaluates.  rSelf is   *)
(* new SubObjectValueValidation(S), which can be staged once S exists.      *)

\* what is staged on the builder after build(): addProperty(name) and
\* addValueValidation(rule)
LaterNames == {"self", "toString"}

LaterRules == {"rNum", "rSelf"}

ReuseObjects ==
    {Obj(EmptyMap),
     Obj("count" :> Num(7)),
     Obj(("count" :> Num(7)) @@ ("self" :> Obj("count" :> Num(7)))),
     Obj(("count" :> Num(7)) @@ ("self" :> Num(5)))}

\* S as build() returned it, holding Property("count", [TypeRule(number)], default 0)
InitReuse == \E o \in ReuseObjects : InitWith(CountProp, <<"P">>, o)

\* SchemaBuilder.completeProperty, reached from the addProperty or build that
\* follows: the staged property is pushed onto _schemaProperties, the array S
\* holds; the complexity S cached stays as it was.
CompletePropertyAfterBuild ==
    /\ Len(arrays["S"]) < MaxProps
    /\ \E name \in LaterNames, rule \in LaterRules :
        /\ props' = ("pLater" :> SchemaProperty(name, Arr(<<rule>>), FALSE, Undefined, schemas))
                    @@ props
        /\ arrays' = [arrays EXCEPT !["S"] = Append(@, "pLater")]
    /\ call' = [NoCall EXCEPT !.op = "completeProperty", !.target = "S"]
    /\ UNCHANGED <<callers, builder, calls, schemas, fr, obj, objPre, dict, reg>>

NextReuse == CompletePropertyAfterBuild \/ NextValidation

SpecReuse == InitReuse /\ [][NextReuse]_vars

-----------------------------------------------------------------------------
(* What the claims speak of.                                               *)

\* name is a key of the object
IsKey(o, name) == name \in DOMAIN o.own

\* the rule accepts the value: isValueValid returns true
Accepts(r, value) ==
    \E res \in {RuleIsValueValid(r, value, fr)} : ~res.threw /\ res.ret = "true"

HasNoRules(pd) == pd.rules.t = "null" \/ Len(pd.rules.elems) = 0

SomeRuleAccepts(pd, value) ==
    /\ ~HasNoRules(pd)
    /\ \E i \in 1..Len(pd.rules.elems) : Accepts(pd.rules.elems[i], value)

\* "valid" as the data model states it for a Property variant
PropertyValid(pd, o) ==
    \/ ~IsKey(o, pd.name) /\ pd.isOptional
    \/ IsKey(o, pd.name) /\ HasNoRules(pd)
    \/ IsKey(o, pd.name) /\ SomeRuleAccepts(pd, o.own[pd.name])

\* "valid" as the data model states it for an InvalidProperty: the value is
\* absent or explicitly undefined
ExcludedValid(pd, o) == ~IsKey(o, pd.name) \/ o.own[pd.name] = Undefined

EntryValid(pd, o) ==
    IF pd.kind = "InvalidProperty" THEN ExcludedValid(pd, o) ELSE PropertyValid(pd, o)

PropertiesOfS == arrays[schemas["S"].properties]

\* C1: Schema.isValid(obj) returns true whenever every required property is
\* present and satisfied and every optional property is absent or satisfied;
\* in particular the schema (name: string, age: optional number) accepts
\* {name: "Ann", age: 30} and {name: "Ann"}.
C1_OptionalOmittedAccepted ==
    (/\ call.op = "schema.isValid"
     /\ obj.t = "map"
     /\ \A i \in 1..Len(PropertiesOfS) : EntryValid(props[PropertiesOfS[i]], obj))
    => (~call.threw /\ call.ret = "true")

\* C2: a Property variant's isValid(obj) returns true iff (name is not a key
\* and the property is optional) or (name is a key and there are no rules) or
\* (name is a key and some rule accepts obj[name]); otherwise it returns false.
C2_PropertyValidIff ==
    (/\ call.op = "prop.isValid"
     /\ props[call.target].kind = "Property"
     /\ obj.t = "map")
    => /\ ~call.threw
       /\ call.ret = (IF PropertyValid(props[call.target], obj) THEN "true" ELSE "false")

\* the property's isValid(obj) does not return true
Fails(p) == \E res \in {PropIsValid(p, obj, fr)} : res.threw \/ res.ret # "true"

\* the failureReason the property shows after its own isValid(obj)
ReasonOf(p) == PropFailureReason(p, PropIsValid(p, obj, fr).h)

RECURSIVE FailingReasons(_, _)
FailingReasons(ps, i) ==
    IF i > Len(ps) THEN <<>>
    ELSE (IF Fails(ps[i]) THEN <<ReasonOf(ps[i])>> ELSE <<>>) \o FailingReasons(ps, i + 1)

\* C3: Schema.isValid(obj) evaluates every declared property, returns true iff
\* no property failed, and leaves failureReason equal to the failureReasons of
\* exactly the failing properties, joined by a newline, in declaration order.
C3_AllFailuresJoined ==
    (call.op = "schema.isValid" /\ obj.t = "map" /\ ~call.threw)
    => /\ (call.ret = "true") = (\A i \in 1..Len(PropertiesOfS) : ~Fails(PropertiesOfS[i]))
       /\ (call.ret = "true") = (\A i \in 1..Len(PropertiesOfS) :
                                    EntryValid(props[PropertiesOfS[i]], obj))
       /\ fr["S"] = Join(FailingReasons(PropertiesOfS, 1), "\n")

\* C4: after Schema.isValid(obj), and after SchemaProperty.isValid(obj), the
\* failureReason is non-empty if the call did not report the object valid and is
\* the empty string if it did.
C4_ReasonIffInvalid ==
    /\ (call.op = "schema.isValid" /\ obj.t = "map" /\ ~call.threw)
       => ((call.ret = "true") = (fr["S"] = ""))
    /\ (/\ call.op = "prop.isValid"
        /\ props[call.target].kind = "Property"
        /\ obj.t = "map"
        /\ ~call.threw)
       => ((call.ret = "true") = (fr[call.target] = ""))

\* C5: Schema.isValid, SchemaProperty.isValid, InvalidProperty.isValid and
\* isValueValid return a boolean and raise no error, for every value of the
\* input value model, also one reached through SubSchemaRule or ArrayRule.
C5_NeverThrows ==
    call.op \in {"schema.isValid", "prop.isValid", "rule.isValueValid"}
    => (~call.threw /\ call.ret \in {"true", "false"})

\* C6: SchemaProperty.testApplyDefault(obj) assigns obj[name] = defaultValue
\* exactly when the property is not valid for obj, and leaves obj unchanged when
\* it is valid (in particular optional and absent); no other key is touched.
C6_DefaultOnlyWhenInvalid ==
    (/\ call.op = "prop.testApplyDefault"
     /\ props[call.target].kind = "Property"
     /\ ~call.threw)
    => LET pd == props[call.target] IN
       obj = (IF PropertyValid(pd, objPre) THEN objPre
              ELSE SetProperty(objPre, pd.name, pd.defaultValue))

\* the defaultValue is accepted by at least one rule, or there are no rules
DefaultIsSound(pd) == HasNoRules(pd) \/ SomeRuleAccepts(pd, pd.defaultValue)

\* C7: for a Property whose defaultValue is accepted by one of its rules (or
\* that has no rules), after testApplyDefault(obj) a following isValid(obj)
\* returns true; Property("count", [TypeRule(number)], default 0) turns {}
\* into {count: 0}.
C7_DefaultMakesValid ==
    (/\ call.op = "prop.testApplyDefault"
     /\ props[call.target].kind = "Property"
     /\ ~call.threw
     /\ DefaultIsSound(props[call.target]))
    => /\ \E res \in {PropIsValid(call.target, obj, fr)} : ~res.threw /\ res.ret = "true"
       /\ (props[call.target] = CountProp /\ objPre = Obj(EmptyMap))
          => obj = Obj("count" :> Num(0))

\* C8: InvalidProperty.isValid(obj) returns true iff obj[name] is absent or
\* explicitly undefined; testApplyDefault(obj) deletes the key when isValid(obj)
\* is false and changes nothing otherwise; afterwards isValid(obj) returns true.
C8_ExcludedProperty ==
    /\ (/\ call.op = "prop.isValid"
        /\ props[call.target].kind = "InvalidProperty"
        /\ obj.t = "map")
       => (~call.threw /\ call.ret = BoolRet(ExcludedValid(props[call.target], obj)))
    /\ (/\ call.op = "prop.testApplyDefault"
        /\ props[call.target].kind = "InvalidProperty")
       => /\ ~call.threw
          /\ obj = (IF ExcludedValid(props[call.target], objPre) THEN objPre
                    ELSE DeleteProperty(objPre, props[call.target].name))
          /\ \E res \in {PropIsValid(call.target, obj, fr)} : ~res.threw /\ res.ret = "true"

RECURSIVE FirstRegistered(_, _)
\* the first key registered, from the i-th on, whose schema's isValid(obj) is true
FirstRegistered(order, i) ==
    IF i > Len(order) THEN "undefined"
    ELSE IF Truthy(SchemaIsValid(reg.val[order[i]], obj, fr).ret) THEN order[i]
    ELSE FirstRegistered(order, i + 1)

\* C9: after any sequence of addSchema/replaceSchema/remove with arbitrary
\* string keys, numeric-looking or not, getSchemaKeys returns the registered
\* keys in registration order, and validateObjectSchema(obj) returns
\* (true, key) for the first-registered schema whose isValid(obj) is true, or
\* (false, undefined) when none matches.
C9_RegistrationOrder ==
    /\ call.op = "getSchemaKeys" => call.keys = reg.order
    /\ call.op = "validateObjectSchema"
       => /\ ~call.threw
          /\ call.key = FirstRegistered(reg.order, 1)
          /\ call.ret = (IF call.key = "undefined" THEN "false" ELSE "true")

\* One call, from the collection before it (unprimed) to the call's outcome.
C10Step ==
    LET k == call'.target
        s == call'.arg
        present == k \in DOMAIN reg.val IN
    /\ call'.op = "hasSchema" => call'.ret = BoolRet(present)
    /\ call'.op = "addSchema"
       => IF present THEN call'.threw /\ dict' = dict
          ELSE ~call'.threw /\ GetSchema(dict', k) = s
    /\ call'.op = "replaceSchema" => (~call'.threw /\ GetSchema(dict', k) = s)
    /\ call'.op = "remove" => (call'.ret = BoolRet(present) /\ ~HasSchema(dict', k))
    /\ call'.op = "getSchema"
       => (~call'.threw /\ call'.ret = (IF present THEN reg.val[k] ELSE "null"))

\* C10: SchemaCollection is a name-to-Schema map over arbitrary string keys:
\* hasSchema(k) is true exactly for the keys added or replaced and not since
\* removed; addSchema on a key already present raises and leaves the collection
\* unchanged; replaceSchema always succeeds and getSchema(k) then returns s;
\* remove(k) returns true iff k was present and afterwards hasSchema(k) is
\* false; getSchema(k) returns null for a missing key.
C10_NameToSchemaMap == [][C10Step]_vars

\* the child rules the array rule holds: none, or the list it was given
ChildRulesOf(r) ==
    IF RuleTable[r].childRules.t = "null" THEN <<>> ELSE RuleTable[r].childRules.elems

\* every element of the array is accepted by at least one child rule
EveryElementAccepted(r, value) ==
    \A i \in 1..Len(value.elems) :
        \E k \in 1..Len(ChildRulesOf(r)) : Accepts(ChildRulesOf(r)[k], value.elems[i])

\* C11: for every ArrayRule and value v: a v that is not an array gives false
\* with failureReason "Supplied value was not an array"; the empty array gives
\* true whatever the child rules; and with a non-empty child-rule list an array
\* v gives true iff every element of v is accepted by at least one child rule.
C11_ArrayRule ==
    (call.op = "rule.isValueValid" /\ call.target \in ArrayRuleIds)
    => /\ obj.t # "array"
          => /\ ~call.threw
             /\ call.ret = "false"
             /\ fr[call.target] = "Supplied value was not an array"
       /\ obj = Arr(<<>>) => (~call.threw /\ call.ret = "true")
       /\ (obj.t = "array" /\ Len(ChildRulesOf(call.target)) > 0)
          => /\ ~call.threw
             /\ call.ret = BoolRet(EveryElementAccepted(call.target, obj))

\* C12: an ArrayRule with no child rules, constructed with the child rules
\* omitted (null) or with an empty rule list, accepts every array whatever its
\* contents.
C12_NoChildRulesAcceptsAll ==
    (/\ call.op = "rule.isValueValid"
     /\ call.target \in ArrayRuleIds
     /\ Len(ChildRulesOf(call.target)) = 0
     /\ obj.t = "array")
    => (~call.threw /\ call.ret = "true")

\* some child rule of r accepts the i-th element
ElementAccepted(r, value, i) ==
    \E k \in 1..Len(ChildRulesOf(r)) : Accepts(ChildRulesOf(r)[k], value.elems[i])

\* the smallest index (from 1) whose element no child rule accepts
SmallestRejected(r, value) ==
    CHOOSE i \in 1..Len(value.elems) :
        /\ ~ElementAccepted(r, value, i)
        /\ \A j \in 1..(i - 1) : ElementAccepted(r, value, j)

\* the failureReason a rule holds after evaluating the value on its own
ReasonAfter(r, value) == RuleFailureReason(r, RuleIsValueValid(r, value, fr).h)

\* the child rules stand in ascending order of complexity
ChildRulesAscending(r) ==
    \A k \in 1..Len(ChildRulesOf(r)), l \in 1..Len(ChildRulesOf(r)) :
        k < l => RuleComplexity(ChildRulesOf(r)[k], NestedSchemas)
                 <= RuleComplexity(ChildRulesOf(r)[l], NestedSchemas)

\* an ArrayRule with a child-rule list has just rejected the array obj
ArrayRejected ==
    /\ call.op = "rule.isValueValid"
    /\ call.target \in ArrayRuleIds
    /\ RuleTable[call.target].childRules.t # "null"
    /\ obj.t = "array"
    /\ ~call.threw
    /\ call.ret = "false"

\* C13 as stated: a rejecting ArrayRule fails at the smallest index i whose
\* element no child rule accepts, and its failureReason is `Array value at
\* index <i> failed conditions [d1 | d2 | ...]` with the displayStrings of all
\* child rules in ascending-complexity order.
C13_RejectListsDisplayStrings ==
    ArrayRejected
    => LET r == call.target
           i == SmallestRejected(r, obj) IN
       /\ ChildRulesAscending(r)
       /\ fr[r] = "Array value at index " \o ToString(i - 1) \o " failed conditions ["
                  \o Join([k \in 1..Len(ChildRulesOf(r)) |->
                              RuleDisplayString(ChildRulesOf(r)[k])], " | ")
                  \o "]"

\* C13 amended: a rejecting ArrayRule fails at the smallest index i whose
\* element no child rule accepts, no later element is evaluated (every child
\* rule still holds the failureReason that element left it), and its
\* failureReason is `Array value at index <i> failed conditions [f1 | f2 | ...]`
\* with the failureReasons of all child rules for that element, in
\* ascending-complexity order.
C13_RejectListsFailureReasons ==
    ArrayRejected
    => LET r == call.target
           i == SmallestRejected(r, obj) IN
       /\ ChildRulesAscending(r)
       /\ \A k \in 1..Len(ChildRulesOf(r)) :
             RuleFailureReason(ChildRulesOf(r)[k], fr)
                = ReasonAfter(ChildRulesOf(r)[k], obj.elems[i])
       /\ fr[r] = "Array value at index " \o ToString(i - 1) \o " failed conditions ["
                  \o Join([k \in 1..Len(ChildRulesOf(r)) |->
                              ReasonAfter(ChildRulesOf(r)[k], obj.elems[i])], " | ")
                  \o "]"

\* An ArrayRule with two child rules, listed by descending complexity, rejected
\* an array whose first element it accepted, with a later element never read.
C13_Witness ==
    /\ ArrayRejected
    /\ call.target = "rArrNumNull"
    /\ obj = Arr(<<Num(1), Str("a")>>)
    /\ fr["rArrNumNull"] = "Array value at index 1 failed conditions [Value was not null | Value was of type 'string' when was expecting 'number']"

\* the runtime type tag of a value; null and arrays carry the tag object
RuntimeTypeTag(v) ==
    CASE v.t = "undefined" -> "undefined"
      [] v.t = "boolean"   -> "boolean"
      [] v.t = "number"    -> "number"
      [] v.t = "string"    -> "string"
      [] v.t = "symbol"    -> "symbol"
      [] v.t = "bigint"    -> "bigint"
      [] v.t = "function"  -> "function"
      [] v.t \in {"null", "array", "map"} -> "object"

\* the eight recognised tags, by the number of the BasicType member
TagNames == <<"undefined", "boolean", "number", "string", "symbol", "bigint", "object",
              "function">>

\* C14: for every TypeRule with expected tag t among the eight basic types and
\* every value v, isValueValid(v) is true iff the runtime type tag of v equals
\* t (null and arrays carry the tag object); on failure failureReason is
\* `Value was of type '<actual>' when was expecting '<expected>'` and on success
\* it is empty.  NullRule.isValueValid(v) is true iff v is exactly null.
C14_TypeRuleAndNullRule ==
    /\ (call.op = "rule.isValueValid" /\ call.target \in BasicRuleIds)
       => LET t == TagNames[RuleTable[call.target].expected + 1] IN
          /\ ~call.threw
          /\ call.ret = BoolRet(RuntimeTypeTag(obj) = t)
          /\ fr[call.target] =
                (IF RuntimeTypeTag(obj) = t THEN ""
                 ELSE "Value was of type '" \o RuntimeTypeTag(obj)
                      \o "' when was expecting '" \o t \o "'")
    /\ (call.op = "rule.isValueValid" /\ call.target = "rNull")
       => (~call.threw /\ call.ret = BoolRet(obj = Null))

\* TypeRule(number) was handed null and rejected it as an object.
C14_Witness ==
    /\ call.op = "rule.isValueValid"
    /\ call.target = "rNum"
    /\ obj = Null
    /\ call.ret = "false"
    /\ fr["rNum"] = "Value was of type 'object' when was expecting 'number'"

\* C15: for every wrapped rule r and value v, InverseRule(r).isValueValid(v)
\* equals the negation of r.isValueValid(v) (raising where r raises), and the
\* InverseRule's failureReason is always `<r.displayString> was valid`, whatever
\* r's own failureReason is and whatever the outcome of the last call.
C15_InverseNegates ==
    (call.op = "rule.isValueValid" /\ call.target \in InverseRuleIds)
    => \E res \in {RuleIsValueValid(RuleTable[call.target].rule, obj, fr)} :
          /\ call.threw = res.threw
          /\ ~res.threw => call.ret = (IF res.ret = "true" THEN "false" ELSE "true")
          /\ RuleFailureReason(call.target, fr)
                = RuleDisplayString(RuleTable[call.target].rule) \o " was valid"

\* InverseRule(TypeRule(number)) accepted a string: the wrapped rule holds its
\* own failure text, the InverseRule the fixed one.
C15_Witness ==
    /\ call.op = "rule.isValueValid"
    /\ call.target = "rNotNum"
    /\ obj = Str("s")
    /\ call.ret = "true"
    /\ fr["rNum"] = "Value was of type 'string' when was expecting 'number'"
    /\ RuleFailureReason("rNotNum", fr) = "value === 'number' was valid"

\* the schema under test holds the one property "address", checked by
\* SubSchemaRule(addressSchema), addressSchema requiring "city" as a string
AddressSchema == PropertiesOfS = <<"pAddr">>

\* C16: SubSchemaRule(schema).isValueValid(v) equals schema.isValid(v), its
\* failureReason being the schema's, and a failure of the nested schema
\* surfaces in the enclosing schema's failureReason: for the outer schema with
\* "address" checked by SubSchemaRule(addressSchema), {address: {city: "X"}} is
\* valid and {address: {}} is invalid, the outer failureReason holding the inner
\* "missing property 'city'" message.
C16_SubSchemaDelegates ==
    /\ (call.op = "rule.isValueValid" /\ RuleTable[call.target].kind = "SubObject")
       => \E res \in {SchemaIsValid(RuleTable[call.target].schema, obj, fr)} :
             /\ call.threw = res.threw
             /\ call.ret = res.ret
             /\ RuleFailureReason(call.target, fr) = fr[RuleTable[call.target].schema]
    /\ (call.op = "schema.isValid" /\ AddressSchema /\ obj = Obj("address" :> City(Str("X"))))
       => (~call.threw /\ call.ret = "true" /\ fr["S"] = "")
    /\ (call.op = "schema.isValid" /\ AddressSchema /\ obj = Obj("address" :> Obj(EmptyMap)))
       => /\ ~call.threw
          /\ call.ret = "false"
          /\ fr["sInner"] = "Value is missing property 'city'"
          /\ fr["S"] = "'address' failed conditions [Value is missing property 'city']"

\* The outer schema rejected {address: {}} and reports the inner message.
C16_Witness ==
    /\ call.op = "schema.isValid"
    /\ AddressSchema
    /\ obj = Obj("address" :> Obj(EmptyMap))
    /\ call.ret = "false"
    /\ fr["S"] = "'address' failed conditions [Value is missing property 'city']"

\* C17: constructing a TypeRule with a type tag outside the eight recognised
\* basic types fails in the constructor call itself, so no TypeRule with an
\* unrecognised tag is ever held by a property and validated.
C17_UnrecognisedTagNeverValidated ==
    ~ \E r \in RuleIds :
        /\ RuleTable[r].kind = "Basic"
        /\ ExpectedStringThrows(RuleTable[r].expected)
        /\ props["P"].rules = Arr(<<r>>)
        /\ call.op = "rule.isValueValid"
        /\ call.target = r

\* the array completeProperty pushes to
PendingList(b) ==
    IF b.kind = "SchemaBuilder" THEN b.schemaProperties ELSE b.currentSchemaProperties

\* a property is pending in the builder; a schema is pending in it
PropertyOpen(b) == b.currentPropertyName # Null
SchemaOpen(b)   == b.currentSchemaName # Null

\* the builder accepts settings for a property: one of type Property is
\* pending (in an open schema, for SchemaCollectionBuilder)
SettingsOpen(b) ==
    /\ PropertyOpen(b)
    /\ b.currentPropertyType = PropertyTypeProperty
    /\ b.kind = "SchemaCollectionBuilder" => SchemaOpen(b)

C18Step ==
    /\ call'.op \in {"isOptional", "withDefault", "addValueValidation"}
       => /\ ~call'.threw => SettingsOpen(builder)
          /\ ~SettingsOpen(builder) => call'.threw
          /\ call'.threw => (builder' = builder /\ calls' = calls)
    /\ (call'.op = "addProperty" /\ builder.kind = "SchemaCollectionBuilder"
        /\ ~SchemaOpen(builder))
       => call'.threw

\* C18: in both builders isOptional, withDefault and addValueValidation
\* succeed only while a pending property of type Property is open (in an open
\* schema, for SchemaCollectionBuilder); with no property open, or with an
\* InvalidProperty open, they raise and leave the pending and the finished
\* state of the builder as it was.  SchemaCollectionBuilder.addProperty raises
\* when no schema is open.
C18_SettingsNeedOpenProperty == [][C18Step]_vars

\* isOptional was refused while an InvalidProperty was pending.
C18_Witness ==
    /\ call.op = "isOptional"
    /\ call.threw
    /\ PropertyOpen(builder)
    /\ builder.currentPropertyType = PropertyTypeInvalidProperty

\* a name the builders refuse: null, empty or whitespace only
EmptyName(name) == name = Null \/ name.s \in {"", " "}

\* what is staged for the pending property
PendingEntry(b) ==
    [name     |-> b.currentPropertyName.s,
     type     |-> b.currentPropertyType,
     optional |-> b.currentPropertyOptional,
     default  |-> b.currentPropertyDefault,
     rules    |-> b.currentPropertyValidation]

\* the two lists hold the same rules, each as often
SameRules(xs, ys) ==
    \A r \in RuleIds :
        Cardinality({i \in 1..Len(xs) : xs[i] = r}) = Cardinality({i \in 1..Len(ys) : ys[i] = r})

\* the property pd of a schema is what was staged as e
EntryMatches(pd, e) ==
    /\ pd.name = e.name
    /\ e.type = PropertyTypeInvalidProperty => pd.kind = "InvalidProperty"
    /\ e.type = PropertyTypeProperty
       => /\ pd.kind = "Property"
          /\ pd.isOptional = e.optional
          /\ pd.defaultValue = e.default
          /\ pd.rules.t = "array"
          /\ SameRules(pd.rules.elems, e.rules)

\* list is the list before with the pending property of b committed to its end
Committed(before, list, b) ==
    IF PropertyOpen(b)
    THEN /\ Len(list) = Len(before) + 1
         /\ SubSeq(list, 1, Len(before)) = before
         /\ EntryMatches(list[Len(list)], PendingEntry(b))
    ELSE list = before

\* addProperty with an empty name while a property is pending
C19AddPropertyStep ==
    (call'.op = "addProperty" /\ EmptyName(call'.arg.name) /\ PropertyOpen(builder))
    => /\ call'.threw
       /\ Committed(PendingList(builder), PendingList(builder'), builder)
       /\ ~PropertyOpen(builder')

\* the finished map holds the pending schema of b, its pending property included
SchemaCommitted(b, after) ==
    /\ b.currentSchemaName.s \in DOMAIN after.schema.val
    /\ Committed(b.currentSchemaProperties,
                 after.schema.val[b.currentSchemaName.s].properties, b)

C19OriginalStep ==
    /\ C19AddPropertyStep
    /\ (call'.op = "addSchema" /\ EmptyName(call'.arg) /\ SchemaOpen(builder)
        /\ PropertyOpen(builder) /\ builder.currentSchemaName.s \notin ProtoKeys)
       => /\ call'.threw
          /\ SchemaCommitted(builder, builder')
          /\ ~PropertyOpen(builder')
          /\ ~SchemaOpen(builder')

\* C19 as claimed: addProperty with an empty name while a property is pending
\* raises, with the pending property committed and none open afterwards, and
\* addSchema with an empty name raises with the pending property and schema
\* committed to the finished map and no schema open afterwards (stated for
\* schema names that the finished map does not inherit).
C19_FlushedBeforeNameCheck == [][C19OriginalStep]_vars

\* the pending schema of b can be committed: it has a property, the pending
\* one counted, and the finished map does not report its name as a key
CanCommit(b) ==
    /\ PropertyOpen(b) \/ Len(b.currentSchemaProperties) > 0
    /\ ~DictHasKey(b.schema, b.currentSchemaName.s)

C19Step ==
    /\ C19AddPropertyStep
    /\ (call'.op = "addSchema" /\ EmptyName(call'.arg) /\ SchemaOpen(builder))
       => /\ call'.threw
          /\ ~PropertyOpen(builder')
          /\ CanCommit(builder)
             => /\ SchemaCommitted(builder, builder')
                /\ ~SchemaOpen(builder')
                /\ builder'.currentSchemaProperties = <<>>
          /\ ~CanCommit(builder)
             => /\ builder'.schema = builder.schema
                /\ builder'.currentSchemaName = builder.currentSchemaName
                /\ Committed(builder.currentSchemaProperties,
                             builder'.currentSchemaProperties, builder)

\* C19: addProperty and addSchema flush before they check the name.
\* addProperty with an empty name while a property is pending raises, with the
\* pending property committed and none open afterwards.  addSchema with an
\* empty name while a schema is pending raises with the pending property
\* committed to the pending schema; the schema is committed to the finished
\* map, and none is open afterwards, when it has a property and the map does
\* not report its name as a key; otherwise the map is as it was and the schema
\* stays open.
C19_FlushedBeforeNameCheckWhenFlushable == [][C19Step]_vars

\* addSchema("") raised after the schema "s" with its property went to the map.
C19_Witness ==
    /\ call.op = "addSchema"
    /\ call.arg = Str("")
    /\ call.threw
    /\ calls = << [op |-> "addSchema", arg |-> Str("s")],
                  [op |-> "addProperty",
                   arg |-> [name |-> Str("a"), type |-> PropertyTypeProperty]] >>
    /\ "s" \in DOMAIN builder.schema.val
    /\ Len(builder.schema.val["s"].properties) = 1
    /\ ~SchemaOpen(builder)

\* What the calls that returned have staged, read off the record of the calls:
\* a list of schemas, each with its name and the entries declared for it; an
\* entry starts required, without default and without rules.
StageCall(groups, c) ==
    LET g == Len(groups)
        e == IF g = 0 THEN 0 ELSE Len(groups[g].entries) IN
    CASE c.op = "addSchema" ->
            Append(groups, [name |-> c.arg.s, entries |-> <<>>])
      [] c.op = "addProperty" ->
            [groups EXCEPT ![g].entries =
                Append(@, [name |-> c.arg.name.s, type |-> c.arg.type, optional |-> FALSE,
                           default |-> Undefined, rules |-> <<>>])]
      [] c.op = "isOptional" ->
            [groups EXCEPT ![g].entries[e].optional = c.arg]
      [] c.op = "withDefault" ->
            [groups EXCEPT ![g].entries[e].default = c.arg]
      [] c.op = "addValueValidation" ->
            [groups EXCEPT ![g].entries[e].rules = Append(@, c.arg)]

RECURSIVE Stage(_, _)
Stage(groups, cs) ==
    IF cs = <<>> THEN groups ELSE Stage(StageCall(groups, Head(cs)), Tail(cs))

\* SchemaBuilder stages one schema, SchemaCollectionBuilder one per addSchema
StagedSchemas ==
    Stage(IF builder.kind = "SchemaBuilder" THEN << [name |-> "", entries |-> <<>>] >>
          ELSE <<>>,
          calls)

\* the properties are the entries, one for one and in order
SchemaMatches(properties, entries) ==
    /\ Len(properties) = Len(entries)
    /\ \A i \in 1..Len(entries) : EntryMatches(properties[i], entries[i])

\* C20: the Schema that SchemaBuilder.build returns, and each Schema of the
\* SchemaCollection that SchemaCollectionBuilder.build returns, holds exactly
\* one entry per addProperty call that returned for it, in call order and
\* with names repeated as they were declared; each entry has the type, the
\* optional flag, the default value and the rules staged between its
\* addProperty and the next addProperty, addSchema or build (required, no
\* default and no rules when nothing was staged), and nothing staged for one
\* property shows in a later one.
C20_BuiltAsStaged ==
    (call.op = "build" /\ ~call.threw)
    => \E groups \in {StagedSchemas} :
          IF builder.kind = "SchemaBuilder"
          THEN /\ builder.built.properties = "_schemaProperties"
               /\ SchemaMatches(builder.schemaProperties, groups[1].entries)
          ELSE /\ Cardinality(DOMAIN builder.built.val) = Len(groups)
               /\ \A g \in 1..Len(groups) :
                     /\ groups[g].name \in DOMAIN builder.built.val
                     /\ SchemaMatches(builder.built.val[groups[g].name].properties,
                                      groups[g].entries)

\* build returned a Schema of two properties named "a": the first optional
\* with one rule, the second as addProperty leaves it.
C20_Witness ==
    /\ builder.kind = "SchemaBuilder"
    /\ call.op = "build"
    /\ ~call.threw
    /\ calls = << [op |-> "addProperty",
                   arg |-> [name |-> Str("a"), type |-> PropertyTypeProperty]],
                  [op |-> "isOptional", arg |-> TRUE],
                  [op |-> "addValueValidation", arg |-> "rNum"],
                  [op |-> "addProperty",
                   arg |-> [name |-> Str("a"), type |-> PropertyTypeProperty]] >>
    /\ Len(builder.schemaProperties) = 2
    /\ builder.schemaProperties[1].isOptional
    /\ builder.schemaProperties[1].rules = Arr(<<"rNum">>)
    /\ ~builder.schemaProperties[2].isOptional
    /\ builder.schemaProperties[2].rules = Arr(<<>>)

\* no addProperty call has returned
NoPropertyAdded == \A i \in 1..Len(calls) : calls[i].op # "addProperty"

\* the open schema has had no addProperty call return since its addSchema
NoPropertyAddedToOpenSchema ==
    /\ builder.kind = "SchemaCollectionBuilder"
    /\ SchemaOpen(builder)
    /\ Len(calls) > 0
    /\ calls[Len(calls)].op = "addSchema"

\* every Schema a builder holds or has returned has a property
C21State ==
    /\ builder.kind = "SchemaBuilder"
       => (builder.built # Null => Len(builder.schemaProperties) >= 1)
    /\ builder.kind = "SchemaCollectionBuilder"
       => /\ \A k \in DOMAIN builder.schema.val :
                Len(builder.schema.val[k].properties) >= 1
          /\ builder.built # Null
             => \A k \in DOMAIN builder.built.val :
                   Len(builder.built.val[k].properties) >= 1

C21Step ==
    /\ (call'.op = "build" /\ builder.kind = "SchemaBuilder" /\ NoPropertyAdded)
       => (call'.threw /\ builder'.built = Null)
    /\ (call'.op \in {"addSchema", "build"} /\ NoPropertyAddedToOpenSchema)
       => (call'.threw /\ builder'.schema = builder.schema /\ SchemaOpen(builder'))

\* C21: no Schema exists with zero properties.  SchemaBuilder.build raises
\* when no property was ever added; SchemaCollectionBuilder raises when a
\* schema opened by addSchema is flushed, by the next addSchema or by build,
\* without any addProperty; every Schema reachable through the builders has at
\* least one property.
C21_NoEmptySchema == [](C21State) /\ [][C21Step]_vars

\* addSchema("t") raised on flushing the schema "s" that has no property.
C21_Witness ==
    /\ call.op = "addSchema"
    /\ call.arg = Str("t")
    /\ call.threw
    /\ calls = << [op |-> "addSchema", arg |-> Str("s")] >>
    /\ builder.currentSchemaName = Str("s")
    /\ builder.currentSchemaProperties = <<>>

\* the Schema that SchemaBuilder.build returned caches 1 plus the sum of the
\* complexities of the properties it evaluates
C22State ==
    (builder.kind = "SchemaBuilder" /\ builder.built # Null)
    => builder.built.complexity = SchemaOf(builder.schemaProperties).complexity

\* no call on the builder changes the properties of a Schema it has produced
C22Step ==
    /\ (builder.kind = "SchemaBuilder" /\ builder.built # Null)
       => builder'.schemaProperties = builder.schemaProperties
    /\ builder.kind = "SchemaCollectionBuilder"
       => \A k \in DOMAIN builder.schema.val :
             /\ k \in DOMAIN builder'.schema.val
             /\ builder'.schema.val[k] = builder.schema.val[k]

\* C22: once build() has returned a Schema, no later call on the builder that
\* produced it (addProperty, the setters, build again) changes the list of
\* properties the Schema evaluates, and its cached complexity is always 1 plus
\* the sum of the complexities of the properties it evaluates.
C22_BuiltSchemaImmutable == [](C22State) /\ [][C22Step]_vars

\* what a second S.isValid(obj) gives, made right after the first on the object
\* as it is: the same result and the same failureReason of S
SecondCallAgrees(res) ==
    /\ res.threw = call.threw
    /\ res.ret = call.ret
    /\ res.h["S"] = fr["S"]

\* C23: Schema.isValid is idempotent: called twice in a row on the same object
\* with nothing changing the object in between, the second call gives the same
\* result and leaves the same failureReason as the first, whatever rules the
\* schema nests (SubSchemaRule, ArrayRule, InverseRule) and whatever the object.
C23_IsValidIdempotent ==
    (call.op = "schema.isValid" /\ call.target = "S")
    => \E res \in {SchemaIsValid("S", obj, fr)} : SecondCallAgrees(res)

\* a schema over an array rule that nests a schema has rejected an object, with
\* a reason read from the nested schema
C23_Witness ==
    /\ call.op = "schema.isValid" /\ call.ret = "false" /\ ~call.threw
    /\ props["P"].kind = "Property"
    /\ props["P"].rules = Arr(<<"rArr">>)
    /\ obj = Obj("count" :> Arr(<<City(Str("X")), City(Num(1))>>))
    /\ fr["S"] # ""

\* the orders in which the rules xs can be listed
RuleOrders(xs) ==
    {[i \in 1..Len(xs) |-> xs[f[i]]] :
        f \in {g \in [1..Len(xs) -> 1..Len(xs)] : \A i, j \in 1..Len(xs) : g[i] = g[j] => i = j}}

\* the property P has just checked a value it holds rules for
RulesConsulted ==
    /\ call.op = "prop.isValid" /\ call.target = "P"
    /\ props["P"].kind = "Property"
    /\ props["P"].rules.t # "null"
    /\ Len(props["P"].rules.elems) > 0
    /\ ~InThrows(obj)
    /\ HasProperty(obj, props["P"].name)

\* the rules, tried in the order given, end as the call did
SameOutcome(res) ==
    /\ res.threw = call.threw
    /\ Truthy(res.ret) = Truthy(call.ret)

\* C25: the order of the rules never affects pass/fail: a property gives the
\* same boolean result on a value for every permutation of the rule list it was
\* constructed with, whatever the complexities order the rules to; only the
\* evaluation order and the failure text can differ.
C25_OrderNeverAffectsResult ==
    RulesConsulted
    => \A rules \in RuleOrders(props["P"].rules.elems) :
          \E res \in {FirstMatch(rules, 1, GetProperty(obj, props["P"].name), fr)} :
              SameOutcome(res)


\* the failure text made of what each rule reports for the value, in rule order
ConditionsText(pd, value) ==
    "'" \o pd.name \o "' failed conditions ["
    \o Join([k \in 1..Len(pd.rules.elems) |-> ReasonAfter(pd.rules.elems[k], value)], " | ")
    \o "]"

\* C26: after a Property variant's isValid(obj) fails, its failureReason is
\* "Value is missing property '<name>'" when the property is required and
\* absent, and "'<name>' failed conditions [x1 | ... | xn]" when it is present
\* and every rule rejected it, each xi being the failureReason rule ri reports
\* for this value, in ascending complexity order, also when several rules of
\* the property share a nested rule or Schema instance.
C26_FailureText ==
    (/\ call.op = "prop.isValid" /\ call.target = "P"
     /\ props["P"].kind = "Property"
     /\ ~call.threw /\ call.ret = "false")
    => IF ~HasProperty(obj, props["P"].name)
       THEN fr["P"] = "Value is missing property '" \o props["P"].name \o "'"
       ELSE fr["P"] = ConditionsText(props["P"], GetProperty(obj, props["P"].name))

\* C24: failureReason is state of the Schema instance that its callers share:
\* when a caller's validation and its read of failureReason complete before
\* the next validation of the instance begins, the reason read is the one its
\* own validation left; when the steps of two callers interleave, a caller can
\* read a reason produced for the other caller's object.
C24_ReasonOwnWhenNotInterleaved ==
    \A c \in Callers :
        (callers[c].pc = "read" /\ callers[c].alone) => callers[c].read = callers[c].own

\* A has read the reason of its own object; B, whose validation of {} was
\* followed by A's before B read, has read A's reason instead of its own
C24_Witness ==
    /\ callers["A"].pc = "read" /\ callers["A"].alone
    /\ callers["A"].read = callers["A"].own /\ callers["A"].own # ""
    /\ callers["B"].pc = "read" /\ ~callers["B"].alone
    /\ callers["B"].obj # callers["A"].obj
    /\ callers["B"].read # callers["B"].own
    /\ callers["B"].read = callers["A"].own

\* the properties of S have pairwise distinct names
DistinctNames ==
    \A i, j \in 1..Len(PropertiesOfS) :
        props[PropertiesOfS[i]].name = props[PropertiesOfS[j]].name => i = j

\* every Property variant of S has a default one of its rules accepts, or no rules
DefaultsSound ==
    \A i \in 1..Len(PropertiesOfS) :
        props[PropertiesOfS[i]].kind = "Property" => DefaultIsSound(props[PropertiesOfS[i]])

\* S.isValid(obj) returns true
NowValid == \E res \in {SchemaIsValid("S", obj, fr)} : ~res.threw /\ res.ret = "true"

\* C28: for a Schema whose properties have pairwise distinct names and whose
\* every Property variant has a defaultValue accepted by at least one of its
\* rules (or has no rules), and every map object obj, applyDefaultProperties(obj)
\* completes and isValid(obj) then returns true.
C28_DefaultsThenValid ==
    (/\ call.op = "schema.applyDefaultProperties"
     /\ DistinctNames
     /\ DefaultsSound)
    => (~call.threw /\ NowValid)

\* a second S.applyDefaultProperties(obj) completes and leaves obj as it is
SecondApplyChangesNothing(res) == ~res.threw /\ res.o = obj

\* C29: applyDefaultProperties is idempotent: for every Schema, also one with
\* duplicate names or with both a Property and an InvalidProperty for one
\* name, and every obj, applying it twice leaves obj as applying it once does.
C29_ApplyDefaultsIdempotent ==
    (call.op = "schema.applyDefaultProperties" /\ ~call.threw)
    => \E res \in {ApplyDefaultProperties("S", obj, fr)} : SecondApplyChangesNothing(res)

\* the names of the addSchema calls that returned, in call order
AddSchemaCalls == SelectSeq(calls, LAMBDA c : c.op = "addSchema")

AddSchemaNames == [i \in 1..Len(AddSchemaCalls) |-> AddSchemaCalls[i].arg.s]

\* the finished map holds one schema per name, a property is pending only
\* while a schema is open, and a returned collection lists the addSchema
\* names, each once, in call order
C30State ==
    builder.kind = "SchemaCollectionBuilder"
    => /\ \A i, j \in 1..Len(builder.schema.order) :
             builder.schema.order[i] = builder.schema.order[j] => i = j
       /\ PropertyOpen(builder) => SchemaOpen(builder)
       /\ (call.op = "build" /\ ~call.threw)
          => /\ GetSchemaKeys(builder.built) = AddSchemaNames
             /\ \A i, j \in 1..Len(AddSchemaNames) :
                   AddSchemaNames[i] = AddSchemaNames[j] => i = j

\* flushing an open schema whose name the finished map already holds raises
C30Step ==
    (/\ builder.kind = "SchemaCollectionBuilder"
     /\ call'.op \in {"addSchema", "build"}
     /\ SchemaOpen(builder)
     /\ builder.currentSchemaName.s \in DOMAIN builder.schema.val)
    => (call'.threw /\ builder'.schema = builder.schema)

\* C30: SchemaCollectionBuilder never silently overwrites a schema: the
\* finished map holds at most one schema per name and a property is pending
\* only while a schema is open; a schema name passed to addSchema twice raises
\* a duplicate-key error when the second schema is flushed (at the following
\* addSchema or at build), so build never returns a collection in which a later
\* definition replaced an earlier one, and the keys of a returned collection
\* are the addSchema names in call order.
C30_NeverOverwrites == [](C30State) /\ [][C30Step]_vars

\* C27: validation always terminates: for every Schema obtainable through the
\* public constructors and builders and every finite acyclic input value,
\* Schema.isValid(obj) finishes after a bounded traversal (it never uses up
\* the call stack).
C27_ValidationTerminates ==
    (call.op = "schema.isValid" /\ call.target = "S") => call.ret # "RangeError"

====
